---- MODULE Spec2Model ----
\* Vanity onion-address search of cheeseburger (vanity.RunVanity): N worker
\* goroutines generate ed25519 keypairs, derive the Tor v3 onion address of
\* each public key and hand the first one that matches the prefix to the
\* coordinator over an unbuffered channel; the coordinator cancels the
\* context and saves or reports the result.
EXTENDS Integers, Sequences, FiniteSets, TLC

\* ------------------------------------------------------------------ bounds
MaxWorkers == 2       \* largest -workers value explored
NumSeeds == 3         \* seeds the random source can yield in a search run
NumCodecSeeds == 24   \* seeds the random source can yield in a codec run
MaxAttempts == 3      \* iterations started in one run (caps totalAttempts)
NumFlips == 2         \* values a damaged byte can take
MaxPosts == 2         \* posts created in a run with updates; largest Repository post ID
MaxComments == 2      \* comments created in a run with updates; largest Repository comment ID
MaxCalls == 3         \* getNextID calls on one sequence key
MaxCreators == 2    \* concurrent callers of Repository.CreatePost / CreateComment

\* ------------------------------------------------------- program constants
version == 3
ProgressEvery == 1000000
ClampLowMask == 248
ClampHighMask == 127
ClampSetBit == 64

\* ------------------------------------------------------------------- bytes
RECURSIVE Pow2(_)
Pow2(n) == IF n = 0 THEN 1 ELSE 2 * Pow2(n - 1)

\* b & mask and b | mask on bytes, bit by bit.
RECURSIVE BitAnd(_, _, _)
BitAnd(a, b, n) ==
    IF n = 0 THEN 0
    ELSE 2 * BitAnd(a \div 2, b \div 2, n - 1) + (IF a % 2 = 1 /\ b % 2 = 1 THEN 1 ELSE 0)

RECURSIVE BitOr(_, _, _)
BitOr(a, b, n) ==
    IF n = 0 THEN 0
    ELSE 2 * BitOr(a \div 2, b \div 2, n - 1) + (IF a % 2 = 1 \/ b % 2 = 1 THEN 1 ELSE 0)

And8(a, b) == BitAnd(a, b, 8)
Or8(a, b) == BitOr(a, b, 8)

Bit(b, k) == (b \div Pow2(k)) % 2

\* ------------------------------------------------------------------ text
\* A string is a sequence of one-character strings.
UpperChars == << "A", "B", "C", "D", "E", "F", "G", "H", "I", "J", "K", "L", "M",
                 "N", "O", "P", "Q", "R", "S", "T", "U", "V", "W", "X", "Y", "Z" >>
LowerChars == << "a", "b", "c", "d", "e", "f", "g", "h", "i", "j", "k", "l", "m",
                 "n", "o", "p", "q", "r", "s", "t", "u", "v", "w", "x", "y", "z" >>

\* strings.ToLower on the ASCII range.
ToLowerChar(c) ==
    IF \E k \in 1..26 : UpperChars[k] = c
    THEN LowerChars[CHOOSE k \in 1..26 : UpperChars[k] = c]
    ELSE c

ToLower(s) == [k \in 1..Len(s) |-> ToLowerChar(s[k])]

\* strings.HasPrefix.
HasPrefix(s, p) == Len(s) >= Len(p) /\ SubSeq(s, 1, Len(p)) = p

\* ---------------------------------------------------------------- base32
\* base32.StdEncoding alphabet (RFC 4648).
encodeStd == UpperChars \o << "2", "3", "4", "5", "6", "7" >>

ByteAt(src, k) == IF k <= Len(src) THEN src[k] ELSE 0

\* The 5-bit group number j (from 0) of the bit string of src.
Quantum(src, j) ==
    LET q == (5 * j) \div 8
        r == (5 * j) % 8
        w == ByteAt(src, q + 1) * 256 + ByteAt(src, q + 2)
    IN (w \div Pow2(11 - r)) % 32

\* base32.StdEncoding.WithPadding(base32.NoPadding).EncodeToString.
EncodeToString(src) ==
    [j \in 1..((Len(src) * 8 + 4) \div 5) |-> encodeStd[Quantum(src, j - 1) + 1]]

\* hex.EncodeToString: two lowercase digits for each byte, the high four
\* bits first.
hextable == << "0", "1", "2", "3", "4", "5", "6", "7", "8", "9",
              "a", "b", "c", "d", "e", "f" >>

HexEncodeToString(src) ==
    [j \in 1..(2 * Len(src)) |->
        IF j % 2 = 1 THEN hextable[(src[(j + 1) \div 2] \div 16) + 1]
        ELSE hextable[(src[j \div 2] % 16) + 1]]

\* ------------------------------------------------- library stand-ins
\* The digests and the curve arithmetic come from crypto/sha512,
\* golang.org/x/crypto/sha3 and crypto/ed25519. Each is modelled by a fixed,
\* deterministic mixing function of all of its input bytes with the output
\* length of the original: what the program relies on.
RECURSIVE AbsorbRange(_, _, _, _)
AbsorbRange(src, lo, hi, m) ==
    IF lo > hi THEN 7
    ELSE IF lo = hi THEN (src[lo] + 1) * (2 * lo + 1) + lo
    ELSE LET mid == (lo + hi) \div 2
         IN (AbsorbRange(src, lo, mid, m) * m + AbsorbRange(src, mid + 1, hi, m)) % 65521

Absorb(src, k, m) == AbsorbRange(src, 1, k, m)

Squeeze(a, c, n) ==
    [i \in 1..n |-> ((a + c * i) * (2 * i + 1) + (a \div 256) * i + (a \div 4096)) % 256]

\* sha512.Sum512: 64 bytes.
Sum512(src) == Squeeze(Absorb(src, Len(src), 31), 977, 64)

\* sha3.Sum256: 32 bytes.
Sum256(src) == Squeeze(Absorb(src, Len(src), 37), 613, 32)

\* The public key of a scalar (edwards25519 ScalarBaseMult of the scalar's
\* 32 bytes, encoded).
ScalarBaseMult(s) == Squeeze(Absorb(s, Len(s), 29), 331, 32)

\* ed25519.NewKeyFromSeed(seed).Public(): the seed is hashed, the digest's
\* low half clamped, and the result used as the scalar.
PublicOfSeed(seed) ==
    LET h == Sum512(seed)
        s == [i \in 1..32 |->
                IF i = 1 THEN And8(h[1], 248)
                ELSE IF i = 32 THEN Or8(And8(h[32], 127), 64)
                ELSE h[i]]
    IN ScalarBaseMult(s)

\* The n-th 32-byte seed of the bounded random source.
SeedOf(n) == [i \in 1..32 |-> ((n + 155) * 37 + i * 11) % 256]

SeedIds == 0..((IF NumSeeds > NumCodecSeeds THEN NumSeeds ELSE NumCodecSeeds) - 1)
Seeds == { SeedOf(n) : n \in SeedIds }

\* ed25519.GenerateKey(rand.Reader) on the seed read from the source:
\* the private key is seed || public key. Tabulated over the seeds of the
\* bounded source.
GenerateKeyTable ==
    [seed \in Seeds |-> LET p == PublicOfSeed(seed) IN [pub |-> p, priv |-> seed \o p]]

GenerateKey(seed) == GenerateKeyTable[seed]

PublicKeys == { GenerateKeyTable[seed].pub : seed \in Seeds }

\* ------------------------------------------------------------ the codec
\* ".onion checksum"
checksumPrefix == << 46, 111, 110, 105, 111, 110, 32, 99, 104, 101, 99, 107, 115, 117, 109 >>

\* Mutant of Clamp: the low mask is applied to every byte but byte 31.
ClampEveryByte(h) ==
    [i \in 1..Len(h) |->
        IF i = 32 THEN Or8(And8(h[32], ClampHighMask), ClampSetBit)
        ELSE And8(h[i], ClampLowMask)]

\* Mutant of Clamp: the high bit of byte 31 is left as hashed.
ClampNoHighClear(h) ==
    [i \in 1..Len(h) |->
        IF i = 1 THEN And8(h[1], ClampLowMask)
        ELSE IF i = 32 THEN Or8(h[32], ClampSetBit)
        ELSE h[i]]

\* vanity.go 54-57: the digest of the seed, clamped.
Clamp(h) ==
    [i \in 1..Len(h) |->
        IF i = 1 THEN And8(h[1], ClampLowMask)
        ELSE IF i = 32 THEN Or8(And8(h[32], ClampHighMask), ClampSetBit)
        ELSE h[i]]

\* vanity.go 54-57 on a seed, tabulated over the seeds of the bounded source.
ExpandTable == [seed \in Seeds |-> Clamp(Sum512(seed))]

Expand(seed) == ExpandTable[seed]

\* vanity.go 59-60: checksumData and its hash.
ChecksumData(pk, v) == (checksumPrefix \o pk) \o << v >>

TorHash(pk, v) == Sum256(ChecksumData(pk, v))

\* Mutant of OnionBytes: the version byte ahead of the checksum.
OnionBytesVersionFirst(pk, v) == (pk \o << v >>) \o SubSeq(TorHash(pk, v), 1, 2)

\* vanity.go 62-63: public key, two checksum bytes, version.
OnionBytes(pk, v) == (pk \o SubSeq(TorHash(pk, v), 1, 2)) \o << v >>

\* vanity.go 59-65 on a public key, tabulated over the keys of the bounded
\* source.
OnionAddrTable ==
    [pk \in PublicKeys |-> ToLower(EncodeToString(OnionBytes(pk, version)))]

OnionAddr(pk) == OnionAddrTable[pk]

\* The address alphabet: base32.StdEncoding lowered.
addressAlphabet == ToLower(encodeStd)

Malformed == [error |-> "malformed"]

CharValue(c) == (CHOOSE k \in 1..32 : addressAlphabet[k] = c) - 1

\* Bit number b (from 0) of the bit string the characters of s spell.
AddrBit(s, b) == Bit(CharValue(s[(b \div 5) + 1]), 4 - (b % 5))

DecodeBytes(s) ==
    [k \in 1..((Len(s) * 5) \div 8) |->
        AddrBit(s, 8 * (k - 1)) * 128 + AddrBit(s, 8 * (k - 1) + 1) * 64
        + AddrBit(s, 8 * (k - 1) + 2) * 32 + AddrBit(s, 8 * (k - 1) + 3) * 16
        + AddrBit(s, 8 * (k - 1) + 4) * 8 + AddrBit(s, 8 * (k - 1) + 5) * 4
        + AddrBit(s, 8 * (k - 1) + 6) * 2 + AddrBit(s, 8 * (k - 1) + 7)]

\* decode(address): the 35 bytes an address spells, split into public key,
\* checksum and version; malformed input is an explicit error.
Decode(s) ==
    IF Len(s) # 56 \/ \E k \in 1..Len(s) : \A j \in 1..32 : addressAlphabet[j] # s[k]
    THEN Malformed
    ELSE LET b == DecodeBytes(s)
         IN [publicKey |-> SubSeq(b, 1, 32), checksum |-> SubSeq(b, 33, 34),
             version |-> b[35]]

\* Mutant of Matches: the prefix may occur anywhere in the address.
MatchesAnywhere(addr, p) ==
    p = << >> \/ \E k \in 0..(Len(addr) - Len(p)) : SubSeq(addr, k + 1, k + Len(p)) = p

\* Mutant of Matches: an empty prefix matches nothing.
MatchesNonEmptyOnly(addr, p) == p # << >> /\ HasPrefix(addr, p)

\* vanity.go 67: the match test of an address against the lowered prefix.
Matches(addr, p) == p = << >> \/ HasPrefix(addr, p)

\* ----------------------------------------------------------- persistence
\* "== ed25519v1-secret: type0 ==" and "== ed25519v1-public: type0 ==",
\* each followed by three NUL bytes (vanity.go 98, 105).
secretHeader == << 61, 61, 32, 101, 100, 50, 53, 53, 49, 57, 118, 49, 45,
                   115, 101, 99, 114, 101, 116, 58, 32, 116, 121, 112, 101, 48,
                   32, 61, 61, 0, 0, 0 >>
publicHeader == << 61, 61, 32, 101, 100, 50, 53, 53, 49, 57, 118, 49, 45,
                   112, 117, 98, 108, 105, 99, 58, 32, 116, 121, 112, 101, 48,
                   32, 61, 61, 0, 0, 0 >>
onionSuffix == << ".", "o", "n", "i", "o", "n", "\n" >>

NoFile == << "absent" >>

\* vanity.json: absent, present but no JSON, or a VanityKey (main.go
\* 150-157; of its fields only OnionAddress is read afterwards).
NoJson == [present |-> FALSE, parses |-> FALSE, OnionAddress |-> << >>]
BadJson == [present |-> TRUE, parses |-> FALSE, OnionAddress |-> << >>]
VanityKey(a) == [present |-> TRUE, parses |-> TRUE, OnionAddress |-> a]

\* No log.Fatalf has run.
NoFailure == ""
NoResult == [onionAddr |-> << >>, finalPub |-> << >>, expanded |-> << >>, attempts |-> 0]

\* vanity.go 92: the directory RunVanity saves to, whatever the operator
\* supplied.
saveDir == << "data", "vanity", "default" >>

\* VANITY_DATA_DIR is not set.
Unset == << >>

\* The destinations an operator supplies (vanity_test.go 26-32, 57).
DataDirs == { Unset, << "tmp", "vanity_test" >> }

\* vanity.go 98, 105, 112: the contents of the three files.
secretData(r) == secretHeader \o r.expanded
pubData(r) == publicHeader \o r.finalPub
hostnameContent(r) == r.onionAddr \o onionSuffix

\* vanity.go 49-73: the result a worker builds from the n-th seed.
ResultOf(n) ==
    LET kp == GenerateKey(SeedOf(n))
    IN [onionAddr |-> OnionAddr(kp.pub), finalPub |-> kp.pub,
        expanded |-> Expand(SeedOf(n)), attempts |-> 1]

\* vanity.go 92-116: the directory a completed save of r leaves.
SavedDir(r) ==
    [dir |-> TRUE, secret |-> secretData(r), public |-> pubData(r),
     hostname |-> hostnameContent(r)]

\* ---------------------------------------------------------- service start
\* The seeds whose key sets the start-up is run on.
ServiceSeedIds == 0..(NumSeeds - 1)

\* main.go 173-175 on the scalar a save of the n-th seed stores:
\* ed25519.NewKeyFromSeed(privateScalar).Public(), tabulated.
DerivedPubTable ==
    [n \in ServiceSeedIds |-> PublicOfSeed(SubSeq(Expand(SeedOf(n)), 1, 32))]

\* main.go 173-175: derivedPub for the 32 bytes after the secret header.
DerivedPublic(privateScalar) ==
    IF \E n \in ServiceSeedIds : SubSeq(Expand(SeedOf(n)), 1, 32) = privateScalar
    THEN DerivedPubTable[CHOOSE n \in ServiceSeedIds :
                            SubSeq(Expand(SeedOf(n)), 1, 32) = privateScalar]
    ELSE PublicOfSeed(privateScalar)

\* The address of the key the start-up derives for the n-th seed's scalar.
DerivedAddrTable ==
    [n \in ServiceSeedIds |->
        ToLower(EncodeToString(OnionBytes(DerivedPubTable[n], version)))]

\* strings.TrimSpace (main.go 202).
whitespace == { " ", "\t", "\n", "\r" }

RECURSIVE TrimLeft(_)
TrimLeft(s) == IF s # << >> /\ Head(s) \in whitespace THEN TrimLeft(Tail(s)) ELSE s

RECURSIVE TrimRight(_)
TrimRight(s) ==
    IF s # << >> /\ s[Len(s)] \in whitespace
    THEN TrimRight(SubSeq(s, 1, Len(s) - 1))
    ELSE s

TrimSpace(s) == TrimRight(TrimLeft(s))

\* Mutant of SecretFormatOk: the length alone is looked at.
SecretFormatOkLengthOnly(secretKeyData) == Len(secretKeyData) = 96

\* main.go 167-171: the negation of the condition of the log.Fatalf.
SecretFormatOk(secretKeyData) ==
    Len(secretKeyData) = 96 /\ SubSeq(secretKeyData, 1, 32) = secretHeader

\* Mutant of PublicFormatOk: the length alone is looked at.
PublicFormatOkLengthOnly(publicKeyData) == Len(publicKeyData) = 64

\* main.go 185-189: the negation of the condition of the log.Fatalf.
PublicFormatOk(publicKeyData) ==
    Len(publicKeyData) = 64 /\ SubSeq(publicKeyData, 1, 32) = publicHeader

\* A key set put in the directory by hand: the secret file of the n-th
\* seed, the public key the start-up derives from it, and a hostname file
\* naming the address a.
InstalledDir(n, a) ==
    [dir |-> TRUE, secret |-> secretHeader \o Expand(SeedOf(n)),
     public |-> publicHeader \o DerivedPubTable[n],
     hostname |-> a \o onionSuffix]

\* The addresses a hand-made hostname file names: that of the derived key
\* or that of any generated key.
InstalledAddrs(n) ==
    { DerivedAddrTable[n] } \cup { OnionAddr(GenerateKey(SeedOf(m)).pub) : m \in ServiceSeedIds }

\* ------------------------------------------------------------- the blog
\* common.go 11-18: the sequence keys.
PostSeqKey == "seq:post"
CommentSeqKey == "seq:comment"
SeqKeys == { PostSeqKey, CommentSeqKey }

\* A key the database does not hold (badger.ErrKeyNotFound).
KeyNotFound == << "not found" >>

\* common.go 40: the four bytes stored for an ID, high byte first.
idBytes(id) ==
    << (id \div 16777216) % 256, (id \div 65536) % 256, (id \div 256) % 256, id % 256 >>

\* common.go 31: the ID four stored bytes spell.
idOfBytes(val) == val[1] * 16777216 + val[2] * 65536 + val[3] * 256 + val[4]

\* The databases with nothing stored. The service layer keeps posts under
\* post:<id>, comments under comment:<postID>:<id> and the sequences under
\* their keys; Repository keeps posts under post:<id> and comments under
\* comment:<id>.
EmptyStore == [posts |-> { }, postData |-> << >>, comments |-> { },
               seq |-> [k \in SeqKeys |-> KeyNotFound]]
EmptyRepo == [posts |-> { }, comments |-> { }]

\* Outcomes of an operation.
NoErr == "nil"
ErrNotFound == "record not found"
NoOp == [op |-> "none", layer |-> "none", id |-> 0, postID |-> 0, n |-> 0, err |-> NoErr]

\* Callers of Repository that run side by side: the goroutines in a create,
\* and the one in DeletePost.
Creators == 1..MaxCreators
NoCreate == [pc |-> "idle", postID |-> 0, maxID |-> 0]
NoDelete == [pc |-> "idle", id |-> 0, comments |-> { }, n |-> 0]
Unlocked == 0

\* ------------------------------------------------------------------ state
VARIABLES
    prefix,         \* -prefix flag
    workers,        \* -workers flag
    saveMode,       \* -save flag
    randSeeds,      \* the seeds rand.Reader can yield in this run
    stopRequested,  \* the caller has asked the search to stop
    cpc,            \* position of RunVanity's own goroutine
    spawned,        \* loop index i of the spawn loop
    ctxDone,        \* ctx.Done() is closed
    totalAttempts,  \* the shared attempt counter
    res,            \* the value received from resultChan
    wpc,            \* position of each worker goroutine
    pub,            \* worker local: public key
    priv,           \* worker local: private key (seed || public key)
    expanded,       \* worker local: expanded, clamped scalar
    onionAddr,      \* worker local: lowercase address
    sending,        \* worker local: the result value being sent
    fs,             \* the save directory
    out,            \* lines written to the logger
    handoffs        \* history: sends on resultChan that completed

\* The environment of the save and the service start-up that reads the
\* saved directory.
VARIABLES
    envDataDir,     \* VANITY_DATA_DIR: the destination the operator supplies
    vanityJson,     \* the file vanity.json of the hidden-service directory
    spc,            \* position of runTorHiddenService
    persistent,     \* start-up local: vanity.json was found
    derivedPub,     \* start-up local: the key derived from the secret file
    failure,        \* the message of the log.Fatalf that ended the process
    pristine        \* history: the directory as it was first provisioned

\* History of the search, and the blog's stores.
VARIABLES
    hist,           \* history: keypairs generated, and the counter at cancel()
    wiring,         \* the blog implementation the process is wired to
    store,          \* the Badger database of the service layer
    repo,           \* the Badger database of Repository
    last,           \* the outcome of the last blog operation
    calls,          \* history: the IDs getNextID returned, per sequence key
    seqBase,        \* history: the sequence values the database started with
    mutex,          \* Repository.mutex: Unlocked, or the creator that holds it
    creating,       \* each creator's position in CreatePost / CreateComment
    del             \* the DeletePost call in progress: its list of comments

vars == << prefix, workers, saveMode, randSeeds, stopRequested, cpc, spawned,
           ctxDone, totalAttempts, res, wpc, pub, priv, expanded, onionAddr,
           sending, fs, out, handoffs, envDataDir, vanityJson, spc, persistent,
           derivedPub, failure, pristine, hist, wiring, store, repo, last, calls,
           seqBase, mutex, creating, del >>

flags == << prefix, workers, saveMode, randSeeds, envDataDir >>
service == << vanityJson, spc, persistent, derivedPub, failure, pristine >>
callers == << mutex, creating, del >>
blog == << wiring, store, repo, last, calls, seqBase, callers >>
locals == << pub, priv, expanded, onionAddr, sending >>
coord == << cpc, spawned, res, fs >>

Workers == 1..MaxWorkers

\* The flag values explored. "0" is outside the address alphabet.
Prefixes == { << >>, << "a" >>, << "A" >>, << "0" >> }
WorkerCounts == (-1)..MaxWorkers

\* vanity.go 31.
prefixLower == ToLower(prefix)

EmptyFs == [dir |-> FALSE, secret |-> NoFile, public |-> NoFile, hostname |-> NoFile]

\* Nothing generated yet, cancel() not yet called.
NoHist == [generated |-> 0, late |-> [w \in Workers |-> 0], atCancel |-> -1, base |-> 0]

\* No blog operation has run on the empty databases.
BlogIdle ==
    /\ wiring = "services"
    /\ store = EmptyStore
    /\ repo = EmptyRepo
    /\ last = NoOp
    /\ calls = [k \in SeqKeys |-> << >>]
    /\ seqBase = [k \in SeqKeys |-> 0]
    /\ mutex = Unlocked
    /\ creating = [c \in Creators |-> NoCreate]
    /\ del = NoDelete

SearchInit ==
    /\ hist = NoHist
    /\ stopRequested = FALSE
    /\ cpc = "spawn"
    /\ spawned = 0
    /\ ctxDone = FALSE
    /\ totalAttempts = 0
    /\ res = NoResult
    /\ wpc = [w \in Workers |-> "idle"]
    /\ pub = [w \in Workers |-> << >>]
    /\ priv = [w \in Workers |-> << >>]
    /\ expanded = [w \in Workers |-> << >>]
    /\ onionAddr = [w \in Workers |-> << >>]
    /\ sending = [w \in Workers |-> NoResult]
    /\ out = << >>
    /\ handoffs = 0

\* main.go 117-141: runTorHiddenService entered, nothing read yet.
ServiceInit ==
    /\ spc = "stat"
    /\ persistent = FALSE
    /\ derivedPub = << >>
    /\ failure = NoFailure

InitState ==
    /\ SearchInit
    /\ fs = EmptyFs
    /\ vanityJson = NoJson
    /\ pristine = EmptyFs
    /\ ServiceInit
    /\ BlogIdle

\* vanity.go 22-41: the flags parsed, the context, counter and channel made.
Init ==
    /\ prefix \in Prefixes
    /\ workers \in WorkerCounts
    /\ saveMode \in BOOLEAN
    /\ randSeeds = 0..(NumSeeds - 1)
    /\ envDataDir = Unset
    /\ InitState

\* ---------------------------------------------------------------- workers
\* Iterations begun whose keypair is not yet counted.
Uncounted == Cardinality({ v \in Workers : wpc[v] \in {"generate", "count"} })

Forget(w) ==
    /\ pub' = [pub EXCEPT ![w] = << >>]
    /\ priv' = [priv EXCEPT ![w] = << >>]
    /\ expanded' = [expanded EXCEPT ![w] = << >>]
    /\ onionAddr' = [onionAddr EXCEPT ![w] = << >>]
    /\ sending' = [sending EXCEPT ![w] = NoResult]

\* vanity.go 45-47: the select finds ctx.Done() closed; the worker returns.
CtxDone(w) ==
    /\ wpc[w] = "select"
    /\ ctxDone
    /\ wpc' = [wpc EXCEPT ![w] = "exited"]
    /\ UNCHANGED << flags, service, blog, hist, stopRequested, coord, ctxDone, totalAttempts, locals,
                    out, handoffs >>

\* vanity.go 45, 48: ctx.Done() is open, the default case runs. MaxAttempts
\* caps the iterations begun; an iteration once begun is never held up, and
\* the exit on ctx.Done() is never capped.
Default(w) ==
    /\ wpc[w] = "select"
    /\ ~ctxDone
    /\ totalAttempts + Uncounted < hist.base + MaxAttempts
    /\ wpc' = [wpc EXCEPT ![w] = "generate"]
    /\ UNCHANGED << flags, service, blog, hist, stopRequested, coord, ctxDone, totalAttempts, locals,
                    out, handoffs >>

\* vanity.go 49: a fresh keypair from the random source.
Generate(w) ==
    /\ wpc[w] = "generate"
    /\ \E n \in randSeeds :
          LET kp == GenerateKey(SeedOf(n)) IN
          /\ pub' = [pub EXCEPT ![w] = kp.pub]
          /\ priv' = [priv EXCEPT ![w] = kp.priv]
    /\ wpc' = [wpc EXCEPT ![w] = "count"]
    /\ hist' = [hist EXCEPT !.generated = @ + 1,
                            !.late[w] = @ + (IF ctxDone THEN 1 ELSE 0)]
    /\ UNCHANGED << flags, service, blog, stopRequested, coord, ctxDone,
                    totalAttempts, expanded, onionAddr, sending, out, handoffs >>

\* Mutant of Count: the counter is read and written back in two steps of
\* which another worker's increment can fall between; here the write of a
\* worker that read before its neighbour's increment.
CountLostUpdate(w) ==
    /\ wpc[w] = "count"
    /\ totalAttempts' = IF \E v \in Workers : v # w /\ wpc[v] = "count"
                        THEN totalAttempts
                        ELSE totalAttempts + 1
    /\ expanded' = [expanded EXCEPT ![w] = Expand(SubSeq(priv[w], 1, 32))]
    /\ onionAddr' = [onionAddr EXCEPT ![w] = OnionAddr(pub[w])]
    /\ wpc' = [wpc EXCEPT ![w] = "match"]
    /\ UNCHANGED << flags, service, blog, hist, stopRequested, coord, ctxDone, pub, priv, sending,
                    out, handoffs >>

\* Mutant of Count: the checksum input picks up the shared counter.
CountSharedInput(w) ==
    /\ wpc[w] = "count"
    /\ totalAttempts' = totalAttempts + 1
    /\ expanded' = [expanded EXCEPT ![w] = Expand(SubSeq(priv[w], 1, 32))]
    /\ onionAddr' = [onionAddr EXCEPT ![w] =
            ToLower(EncodeToString(
                (pub[w] \o SubSeq(TorHash(pub[w], totalAttempts % 256), 1, 2))
                \o << version >>))]
    /\ wpc' = [wpc EXCEPT ![w] = "match"]
    /\ UNCHANGED << flags, service, blog, hist, stopRequested, coord, ctxDone, pub, priv, sending,
                    out, handoffs >>

\* vanity.go 53-65: the attempt counted, the scalar expanded, the address
\* derived.
Count(w) ==
    /\ wpc[w] = "count"
    /\ totalAttempts' = totalAttempts + 1
    /\ expanded' = [expanded EXCEPT ![w] = Expand(SubSeq(priv[w], 1, 32))]
    /\ onionAddr' = [onionAddr EXCEPT ![w] = OnionAddr(pub[w])]
    /\ wpc' = [wpc EXCEPT ![w] = "match"]
    /\ UNCHANGED << flags, service, blog, hist, stopRequested, coord, ctxDone, pub, priv, sending,
                    out, handoffs >>

\* Mutant of Match: a matching keypair is dropped like any other.
MatchKeepSearching(w) ==
    /\ wpc[w] = "match"
    /\ Matches(onionAddr[w], prefixLower)
    /\ wpc' = [wpc EXCEPT ![w] = "select"]
    /\ Forget(w)
    /\ UNCHANGED << flags, service, blog, hist, stopRequested, coord, ctxDone, totalAttempts,
                    out, handoffs >>

\* Mutant of Match: the scalar of the result is taken from whichever other
\* worker holds one, as it would be were the digest shared between workers.
MatchSharedScalar(w) ==
    /\ wpc[w] = "match"
    /\ Matches(onionAddr[w], prefixLower)
    /\ LET others == { v \in Workers : v # w /\ expanded[v] # << >> }
           scalar == IF others = { } THEN expanded[w]
                     ELSE expanded[CHOOSE v \in others : TRUE]
       IN sending' = [sending EXCEPT ![w] =
            [onionAddr |-> onionAddr[w], finalPub |-> pub[w],
             expanded |-> scalar, attempts |-> totalAttempts]]
    /\ wpc' = [wpc EXCEPT ![w] = "send"]
    /\ UNCHANGED << flags, service, blog, hist, stopRequested, coord, ctxDone, totalAttempts, pub, priv,
                    expanded, onionAddr, out, handoffs >>

\* vanity.go 67-73: the address matches; the result value is built and the
\* worker arrives at the send.
Match(w) ==
    /\ wpc[w] = "match"
    /\ Matches(onionAddr[w], prefixLower)
    /\ sending' = [sending EXCEPT ![w] =
            [onionAddr |-> onionAddr[w], finalPub |-> pub[w],
             expanded |-> expanded[w], attempts |-> totalAttempts]]
    /\ wpc' = [wpc EXCEPT ![w] = "send"]
    /\ UNCHANGED << flags, service, blog, hist, stopRequested, coord, ctxDone, totalAttempts, pub, priv,
                    expanded, onionAddr, out, handoffs >>

\* vanity.go 67, 77-80: no match; the progress line when the counter is at
\* a multiple of ProgressEvery, then the next iteration.
NoMatch(w) ==
    /\ wpc[w] = "match"
    /\ ~Matches(onionAddr[w], prefixLower)
    /\ out' = IF totalAttempts % ProgressEvery = 0
              THEN Append(out, << "Total Attempts", totalAttempts >>)
              ELSE out
    /\ wpc' = [wpc EXCEPT ![w] = "select"]
    /\ Forget(w)
    /\ UNCHANGED << flags, service, blog, hist, stopRequested, coord, ctxDone, totalAttempts,
                    handoffs >>

\* vanity.go 67, 77: no match; the first load of the counter decides
\* whether the progress line is due.
NoMatchTest(w) ==
    /\ wpc[w] = "match"
    /\ ~Matches(onionAddr[w], prefixLower)
    /\ wpc' = [wpc EXCEPT ![w] = IF totalAttempts % ProgressEvery = 0
                                 THEN "progress" ELSE "select"]
    /\ Forget(w)
    /\ UNCHANGED << flags, service, blog, hist, stopRequested, coord, ctxDone, totalAttempts,
                    out, handoffs >>

\* vanity.go 78: the second load of the counter is what the line carries.
ProgressLine(w) ==
    /\ wpc[w] = "progress"
    /\ out' = Append(out, << "Total Attempts", totalAttempts >>)
    /\ wpc' = [wpc EXCEPT ![w] = "select"]
    /\ UNCHANGED << flags, service, blog, hist, stopRequested, coord, ctxDone, totalAttempts,
                    locals, handoffs >>

\* Mutant of Handoff: RunVanity goes on receiving after the first result.
HandoffKeepReceiving(w) ==
    /\ wpc[w] = "send"
    /\ cpc = "recv"
    /\ res' = sending[w]
    /\ cpc' = "recv"
    /\ handoffs' = handoffs + 1
    /\ wpc' = [wpc EXCEPT ![w] = "exited"]
    /\ Forget(w)
    /\ UNCHANGED << flags, service, blog, hist, stopRequested, spawned, fs, ctxDone, totalAttempts,
                    out >>

\* vanity.go 68-74 with 88: resultChan is unbuffered, so the send completes
\* only together with the receive of RunVanity; the worker then returns.
Handoff(w) ==
    /\ wpc[w] = "send"
    /\ cpc = "recv"
    /\ res' = sending[w]
    /\ cpc' = "cancel"
    /\ handoffs' = handoffs + 1
    /\ wpc' = [wpc EXCEPT ![w] = "exited"]
    /\ Forget(w)
    /\ UNCHANGED << flags, service, blog, hist, stopRequested, spawned, fs, ctxDone, totalAttempts,
                    out >>

\* ------------------------------------------------------------ coordinator
\* vanity.go 84-86: one more worker goroutine started.
Spawn ==
    /\ cpc = "spawn"
    /\ spawned < workers
    /\ spawned' = spawned + 1
    /\ wpc' = [wpc EXCEPT ![spawned + 1] = "select"]
    /\ UNCHANGED << flags, service, blog, hist, stopRequested, cpc, res, fs, ctxDone, totalAttempts,
                    locals, out, handoffs >>

\* vanity.go 84, 88: the loop is over; RunVanity blocks in the receive.
AwaitResult ==
    /\ cpc = "spawn"
    /\ spawned >= workers
    /\ cpc' = "recv"
    /\ UNCHANGED << flags, service, blog, hist, stopRequested, spawned, res, fs, ctxDone,
                    totalAttempts, wpc, locals, out, handoffs >>

\* Mutant of Cancel: the save branch is taken whatever the flag says.
CancelAlwaysSave ==
    /\ cpc = "cancel"
    /\ ctxDone' = TRUE
    /\ cpc' = "mkdir"
    /\ hist' = [hist EXCEPT !.atCancel = totalAttempts]
    /\ UNCHANGED << flags, service, blog, stopRequested, spawned, res, fs,
                    totalAttempts, wpc, locals, out, handoffs >>

\* vanity.go 89-91: cancel(), then the branch on the save flag.
Cancel ==
    /\ cpc = "cancel"
    /\ ctxDone' = TRUE
    /\ cpc' = IF saveMode THEN "mkdir" ELSE "report"
    /\ hist' = [hist EXCEPT !.atCancel = totalAttempts]
    /\ UNCHANGED << flags, service, blog, stopRequested, spawned, res, fs,
                    totalAttempts, wpc, locals, out, handoffs >>

\* vanity.go 92-95.
MkdirAll ==
    /\ cpc = "mkdir"
    /\ fs' = [fs EXCEPT !.dir = TRUE]
    /\ cpc' = "writeSecret"
    /\ UNCHANGED << flags, service, blog, hist, stopRequested, spawned, res, ctxDone, totalAttempts,
                    wpc, locals, out, handoffs >>

\* vanity.go 97-102.
WriteSecret ==
    /\ cpc = "writeSecret"
    /\ fs' = [fs EXCEPT !.secret = secretHeader \o res.expanded]
    /\ out' = Append(out, << "Secret key saved to", "hs_ed25519_secret_key" >>)
    /\ cpc' = "writePublic"
    /\ UNCHANGED << flags, service, blog, hist, stopRequested, spawned, res, ctxDone, totalAttempts,
                    wpc, locals, handoffs >>

\* Mutant of WritePublic: the key bytes written without the header.
WritePublicNoHeader ==
    /\ cpc = "writePublic"
    /\ fs' = [fs EXCEPT !.public = res.finalPub]
    /\ out' = Append(out, << "Public key saved to", "hs_ed25519_public_key" >>)
    /\ cpc' = "writeHostname"
    /\ UNCHANGED << flags, service, blog, hist, stopRequested, spawned, res, ctxDone, totalAttempts,
                    wpc, locals, handoffs >>

\* vanity.go 104-109.
WritePublic ==
    /\ cpc = "writePublic"
    /\ fs' = [fs EXCEPT !.public = publicHeader \o res.finalPub]
    /\ out' = Append(out, << "Public key saved to", "hs_ed25519_public_key" >>)
    /\ cpc' = "writeHostname"
    /\ UNCHANGED << flags, service, blog, hist, stopRequested, spawned, res, ctxDone, totalAttempts,
                    wpc, locals, handoffs >>

\* vanity.go 111-116, then the return.
WriteHostname ==
    /\ cpc = "writeHostname"
    /\ fs' = [fs EXCEPT !.hostname = res.onionAddr \o onionSuffix]
    /\ out' = Append(out, << "Hostname saved to", "hostname" >>)
    /\ cpc' = "done"
    /\ UNCHANGED << flags, service, blog, hist, stopRequested, spawned, res, ctxDone, totalAttempts,
                    wpc, locals, handoffs >>

\* vanity.go 118-121, then the return.
Report ==
    /\ cpc = "report"
    /\ out' = out \o << << "Vanity Onion Address", res.onionAddr >>,
                        << "Public Key (hex)", HexEncodeToString(res.finalPub) >>,
                        << "Expanded Private Key (hex)", HexEncodeToString(res.expanded) >>,
                        << "Total Attempts", res.attempts >> >>
    /\ cpc' = "done"
    /\ UNCHANGED << flags, service, blog, hist, stopRequested, spawned, res, fs, ctxDone,
                    totalAttempts, wpc, locals, handoffs >>

\* The caller's deadline passes or a stop is asked for while the search
\* runs. vanity.go 27: the context is derived from context.Background()
\* and is private to RunVanity, so the request reaches no state the workers
\* or the receive read.
RequestStop ==
    /\ cpc \in {"spawn", "recv"}
    /\ ~stopRequested
    /\ stopRequested' = TRUE
    /\ UNCHANGED << flags, service, blog, hist, coord, ctxDone, totalAttempts, wpc, locals, out, handoffs >>

\* ------------------------------------------------- a failing random source
\* Mutant of EntropyFails: the error is logged and the worker tries again.
EntropyFailsRetry(w) ==
    /\ wpc[w] = "generate"
    /\ out' = Append(out, << "Failed to generate key pair" >>)
    /\ wpc' = [wpc EXCEPT ![w] = "select"]
    /\ UNCHANGED << flags, service, blog, hist, stopRequested, coord, ctxDone,
                    totalAttempts, locals, handoffs >>

\* vanity.go 49-52: ed25519.GenerateKey returns the error of rand.Reader;
\* log.Fatalf logs it and ends the process, every goroutine with it. If
\* RunVanity had returned before, it stays returned.
EntropyFails(w) ==
    /\ wpc[w] = "generate"
    /\ out' = Append(out, << "Failed to generate key pair" >>)
    /\ cpc' = IF cpc = "done" THEN "done" ELSE "fatal"
    /\ wpc' = [v \in Workers |-> IF wpc[v] = "idle" THEN "idle" ELSE "exited"]
    /\ pub' = [v \in Workers |-> << >>]
    /\ priv' = [v \in Workers |-> << >>]
    /\ expanded' = [v \in Workers |-> << >>]
    /\ onionAddr' = [v \in Workers |-> << >>]
    /\ sending' = [v \in Workers |-> NoResult]
    /\ UNCHANGED << flags, service, blog, hist, stopRequested, spawned, res, fs,
                    ctxDone, totalAttempts, handoffs >>

\* ------------------------------------------------------- a failing save
SaveSteps == { "mkdir", "writeSecret", "writePublic", "writeHostname" }

\* The file of the step that failed: os.WriteFile creates and truncates
\* before it writes, so the file is left as it was or left empty.
FailedWrite(step, created) ==
    IF step = "mkdir" \/ ~created THEN fs
    ELSE IF step = "writeSecret" THEN [fs EXCEPT !.secret = << >>]
    ELSE IF step = "writePublic" THEN [fs EXCEPT !.public = << >>]
    ELSE [fs EXCEPT !.hostname = << >>]

\* vanity.go 93-95, 99-101, 106-108, 113-115: a step of the save returns
\* an error; log.Fatalf logs it and ends the process, workers included.
\* What the earlier steps wrote stays.
SaveFails ==
    /\ cpc \in SaveSteps
    /\ \E created \in BOOLEAN : fs' = FailedWrite(cpc, created)
    /\ out' = Append(out, << "Failed", cpc >>)
    /\ cpc' = "fatal"
    /\ wpc' = [w \in Workers |-> IF wpc[w] = "idle" THEN "idle" ELSE "exited"]
    /\ pub' = [w \in Workers |-> << >>]
    /\ priv' = [w \in Workers |-> << >>]
    /\ expanded' = [w \in Workers |-> << >>]
    /\ onionAddr' = [w \in Workers |-> << >>]
    /\ sending' = [w \in Workers |-> NoResult]
    /\ UNCHANGED << flags, service, blog, hist, stopRequested, spawned, res, ctxDone,
                    totalAttempts, handoffs >>

\* The files of directory d: RunVanity writes to saveDir alone.
DirContents(d) == IF d = saveDir THEN fs ELSE EmptyFs

\* --------------------------------------------------- service start-up
\* runTorHiddenService of main.go, run without --vanity-name, so that the
\* hidden-service directory is data/vanity/default, the directory of the
\* save. service/static.go 45-130 repeats the same statements.
search == << flags, stopRequested, cpc, spawned, ctxDone, totalAttempts, res,
             wpc, locals, out, handoffs, hist >>

\* The byte values a damaged byte is moved by.
FlipDeltas == { (85 * d) % 256 : d \in 1..NumFlips }

\* The directory is damaged before the service starts: one byte of the
\* public-key file takes another value.
FlipPublicByte ==
    /\ spc = "stat"
    /\ fs = pristine
    /\ fs.public # NoFile
    /\ \E k \in 1..Len(fs.public), d \in FlipDeltas :
          fs' = [fs EXCEPT !.public[k] = (fs.public[k] + d) % 256]
    /\ UNCHANGED << search, blog, service >>

\* The directory is damaged before the service starts: the secret-key
\* file loses its last byte, gains a byte, or has a header byte changed.
DamageSecret ==
    /\ spc = "stat"
    /\ fs = pristine
    /\ fs.secret # NoFile
    /\ \/ fs' = [fs EXCEPT !.secret = SubSeq(fs.secret, 1, Len(fs.secret) - 1)]
       \/ fs' = [fs EXCEPT !.secret = Append(fs.secret, 0)]
       \/ \E k \in 1..32, d \in FlipDeltas :
             fs' = [fs EXCEPT !.secret[k] = (fs.secret[k] + d) % 256]
    /\ UNCHANGED << search, blog, service >>

\* log.Fatalf: the message logged, the process ended.
Fatal(msg) == spc' = "fatal" /\ failure' = msg

\* main.go 128-137: os.Stat of vanity.json decides the mode.
StatVanityKey ==
    /\ spc = "stat"
    /\ persistent' = vanityJson.present
    /\ spc' = IF vanityJson.present THEN "readKey" ELSE "tempMode"
    /\ UNCHANGED << search, blog, fs, vanityJson, derivedPub, failure, pristine >>

\* main.go 150-157: vanity.json read and unmarshalled.
ReadVanityKey ==
    /\ spc = "readKey"
    /\ IF vanityJson.parses
       THEN spc' = "secret" /\ failure' = failure
       ELSE Fatal("Failed to unmarshal vanity key JSON")
    /\ UNCHANGED << search, blog, fs, vanityJson, persistent, derivedPub, pristine >>

\* main.go 161-175: the secret-key file read and its format checked; the
\* 32 bytes after the header go through ed25519.NewKeyFromSeed.
CheckSecret ==
    /\ spc = "secret"
    /\ IF fs.secret = NoFile
       THEN Fatal("Failed to read secret key file") /\ derivedPub' = derivedPub
       ELSE IF ~SecretFormatOk(fs.secret)
       THEN Fatal("Secret key file has invalid format") /\ derivedPub' = derivedPub
       ELSE /\ derivedPub' = DerivedPublic(SubSeq(fs.secret, 33, 64))
            /\ spc' = "public"
            /\ failure' = failure
    /\ UNCHANGED << search, blog, fs, vanityJson, persistent, pristine >>

\* main.go 179-194: the public-key file read, its format checked and its
\* key bytes compared with the derived key.
CheckPublic ==
    /\ spc = "public"
    /\ IF fs.public = NoFile
       THEN Fatal("Failed to read public key file")
       ELSE IF ~PublicFormatOk(fs.public)
       THEN Fatal("Public key file has invalid format")
       ELSE IF SubSeq(fs.public, 33, 64) # derivedPub
       THEN Fatal("Public key mismatch")
       ELSE spc' = "hostname" /\ failure' = failure
    /\ UNCHANGED << search, blog, fs, vanityJson, persistent, derivedPub, pristine >>

\* Mutant of CheckHostname: a mismatch is logged and the start-up goes on.
CheckHostnameLogOnly ==
    /\ spc = "hostname"
    /\ IF fs.hostname = NoFile
       THEN Fatal("Failed to read hostname file")
       ELSE IF TrimSpace(fs.hostname) # vanityJson.OnionAddress
       THEN spc' = "torrc" /\ failure' = "Hostname mismatch"
       ELSE spc' = "torrc" /\ failure' = failure
    /\ UNCHANGED << search, blog, fs, vanityJson, persistent, derivedPub, pristine >>

\* main.go 197-223: the hostname file read, trimmed and compared with the
\* OnionAddress of vanity.json; then the modes set and Tor's data directory
\* made.
CheckHostname ==
    /\ spc = "hostname"
    /\ IF fs.hostname = NoFile
       THEN Fatal("Failed to read hostname file")
       ELSE IF TrimSpace(fs.hostname) # vanityJson.OnionAddress
       THEN Fatal("Hostname mismatch")
       ELSE spc' = "torrc" /\ failure' = failure
    /\ UNCHANGED << search, blog, fs, vanityJson, persistent, derivedPub, pristine >>

\* main.go 225-238: no vanity.json; temporary directories and the
\* hidden-service directory made, nothing in it read.
TempMode ==
    /\ spc = "tempMode"
    /\ fs' = [fs EXCEPT !.dir = TRUE]
    /\ spc' = "torrc"
    /\ UNCHANGED << search, blog, vanityJson, persistent, derivedPub, failure, pristine >>

\* main.go 242-261: torrc written with HiddenServiceDir naming the
\* directory.
WriteTorrc ==
    /\ spc = "torrc"
    /\ spc' = "serve"
    /\ UNCHANGED << search, blog, fs, vanityJson, persistent, derivedPub, failure, pristine >>

\* main.go 264: the HTTP service started in its goroutine.
Serve ==
    /\ spc = "serve"
    /\ spc' = "tor"
    /\ UNCHANGED << search, blog, fs, vanityJson, persistent, derivedPub, failure, pristine >>

\* main.go 267-292: the Tor binary written out and started on torrc.
StartTor ==
    /\ spc = "tor"
    /\ spc' = "running"
    /\ UNCHANGED << search, blog, fs, vanityJson, persistent, derivedPub, failure, pristine >>

\* ------------------------------------------------------- blog operations
\* A comment as the stores keep it: its own ID and the ID of its post.
Comment(id, postID) == [ID |-> id, PostID |-> postID]

MaxOf(S) == IF S = { } THEN 0 ELSE CHOOSE x \in S : \A y \in S : y <= x

\* The operation that ran last, for the statements about its outcome.
Op(op, layer, id, postID, n, err) ==
    [op |-> op, layer |-> layer, id |-> id, postID |-> postID, n |-> n, err |-> err]

\* ---- Repository (repository.go): one mutex, IDs from the largest key.
\* repository.go 121-151: the post under "post:<id>", or ErrNotFound.
GetPost(r, id) ==
    IF id \in r.posts THEN [post |-> id, err |-> NoErr] ELSE [post |-> 0, err |-> ErrNotFound]

\* repository.go 337-367: every comment whose PostID is postID.
ListCommentsByPost(r, postID) == { c \in r.comments : c.PostID = postID }

\* repository.go 327-335: the key "comment:<id>" deleted, present or not.
DeleteComment(r, id) == [r EXCEPT !.comments = { c \in @ : c.ID # id }]

\* repository.go 83-119: the new post gets the largest ID stored plus one.
CreatePost ==
    LET id == MaxOf(repo.posts) + 1 IN
    /\ wiring = "repository"
    /\ id <= MaxPosts
    /\ repo' = [repo EXCEPT !.posts = @ \cup { id }]
    /\ last' = Op("CreatePost", "repository", id, 0, 0, NoErr)
    /\ UNCHANGED << search, service, fs, wiring, store, calls, seqBase, callers >>

\* repository.go 239-275: the new comment gets the largest ID stored plus
\* one; the post it names is not looked up.
CreateComment(postID) ==
    LET id == MaxOf({ c.ID : c \in repo.comments }) + 1 IN
    /\ wiring = "repository"
    /\ id <= MaxComments
    /\ repo' = [repo EXCEPT !.comments = @ \cup { Comment(id, postID) }]
    /\ last' = Op("CreateComment", "repository", id, postID, 0, NoErr)
    /\ UNCHANGED << search, service, fs, wiring, store, calls, seqBase, callers >>

\* The comments cs deleted from r one by one.
RECURSIVE DeleteEach(_, _)
DeleteEach(r, cs) ==
    IF cs = { } THEN r
    ELSE LET c == CHOOSE x \in cs : TRUE
         IN  DeleteEach(DeleteComment(r, c.ID), cs \ { c })

\* Mutant of DeletePost: only the post's own key is deleted.
DeletePostKeepComments(id) ==
    /\ wiring = "repository"
    /\ repo' = [repo EXCEPT !.posts = @ \ { id }]
    /\ last' = Op("DeletePost", "repository", id, id,
                  Cardinality(ListCommentsByPost(repo, id)), NoErr)
    /\ UNCHANGED << search, service, fs, wiring, store, calls, seqBase, callers >>

\* repository.go 171-191 run to its return with no other caller in
\* between: the comments listed, each deleted, then the key "post:<id>"
\* deleted, present or not.
DeletePost(id) ==
    LET comments == ListCommentsByPost(repo, id)
        afterComments == DeleteEach(repo, comments)
    IN
    /\ wiring = "repository"
    /\ repo' = [afterComments EXCEPT !.posts = @ \ { id }]
    /\ last' = Op("DeletePost", "repository", id, id, Cardinality(comments), NoErr)
    /\ UNCHANGED << search, service, fs, wiring, store, calls, seqBase, callers >>

\* ---- Repository with callers side by side. A create holds r.mutex from
\* its scan of the keys to its Set; DeletePost takes the mutex anew for the
\* list, for each DeleteComment and for the post's key.
\* Mutant of CreatePostScan: the scan runs without taking the mutex.
CreatePostScanUnlocked(c) ==
    /\ wiring = "repository"
    /\ creating[c].pc = "idle"
    /\ MaxOf(repo.posts) + 1 <= MaxPosts
    /\ creating' = [creating EXCEPT ![c] =
            [pc |-> "post", postID |-> 0, maxID |-> MaxOf(repo.posts)]]
    /\ UNCHANGED << search, service, fs, wiring, store, repo, last, calls, seqBase,
                    mutex, del >>

\* repository.go 84-107: r.mutex.Lock(), then the View that finds the
\* largest post ID stored.
CreatePostScan(c) ==
    /\ wiring = "repository"
    /\ creating[c].pc = "idle"
    /\ mutex = Unlocked
    /\ MaxOf(repo.posts) + 1 <= MaxPosts
    /\ mutex' = c
    /\ creating' = [creating EXCEPT ![c] =
            [pc |-> "post", postID |-> 0, maxID |-> MaxOf(repo.posts)]]
    /\ UNCHANGED << search, service, fs, wiring, store, repo, last, calls, seqBase, del >>

\* repository.go 108-119: post.ID = maxID + 1, the Update that sets
\* "post:<id>", and the deferred Unlock.
CreatePostSet(c) ==
    LET id == creating[c].maxID + 1 IN
    /\ wiring = "repository"
    /\ creating[c].pc = "post"
    /\ repo' = [repo EXCEPT !.posts = @ \cup { id }]
    /\ mutex' = Unlocked
    /\ creating' = [creating EXCEPT ![c] = NoCreate]
    /\ last' = Op("CreatePost", "repository", id, 0, 0, NoErr)
    /\ UNCHANGED << search, service, fs, wiring, store, calls, seqBase, del >>

\* repository.go 240-262: r.mutex.Lock(), then the View that finds the
\* largest comment ID stored.
CreateCommentScan(c, postID) ==
    LET maxID == MaxOf({ x.ID : x \in repo.comments }) IN
    /\ wiring = "repository"
    /\ creating[c].pc = "idle"
    /\ mutex = Unlocked
    /\ maxID + 1 <= MaxComments
    /\ mutex' = c
    /\ creating' = [creating EXCEPT ![c] =
            [pc |-> "comment", postID |-> postID, maxID |-> maxID]]
    /\ UNCHANGED << search, service, fs, wiring, store, repo, last, calls, seqBase, del >>

\* repository.go 263-275: comment.ID = maxID + 1, the Update that sets
\* "comment:<id>" (replacing whatever the key held), and the deferred
\* Unlock.
CreateCommentSet(c) ==
    LET id == creating[c].maxID + 1 IN
    /\ wiring = "repository"
    /\ creating[c].pc = "comment"
    /\ repo' = [repo EXCEPT !.comments =
                    { x \in @ : x.ID # id } \cup { Comment(id, creating[c].postID) }]
    /\ mutex' = Unlocked
    /\ creating' = [creating EXCEPT ![c] = NoCreate]
    /\ last' = Op("CreateComment", "repository", id, creating[c].postID, 0, NoErr)
    /\ UNCHANGED << search, service, fs, wiring, store, calls, seqBase, del >>

\* repository.go 173, 337-367: the list of the post's comments, read under
\* RLock, which no holder of the Lock lets through.
DeletePostList(id) ==
    LET comments == ListCommentsByPost(repo, id) IN
    /\ wiring = "repository"
    /\ del.pc = "idle"
    /\ mutex = Unlocked
    /\ del' = [pc |-> "comments", id |-> id, comments |-> comments,
               n |-> Cardinality(comments)]
    /\ UNCHANGED << search, service, fs, wiring, store, repo, last, calls, seqBase,
                    mutex, creating >>

\* The iterator yields the keys in order: the first comment of a list.
FirstListed(comments) == CHOOSE c \in comments : \A d \in comments : c.ID <= d.ID

\* repository.go 178-183 with 327-335: the next comment of the list is
\* deleted by its ID, under the Lock taken and released by DeleteComment.
DeletePostComment ==
    /\ wiring = "repository"
    /\ del.pc = "comments"
    /\ del.comments # { }
    /\ mutex = Unlocked
    /\ repo' = DeleteComment(repo, FirstListed(del.comments).ID)
    /\ del' = [del EXCEPT !.comments = @ \ { FirstListed(del.comments) }]
    /\ UNCHANGED << search, service, fs, wiring, store, last, calls, seqBase,
                    mutex, creating >>

\* repository.go 185-190: the list is done; the key "post:<id>" is deleted
\* under the Lock and DeletePost returns nil.
DeletePostKey ==
    /\ wiring = "repository"
    /\ del.pc = "comments"
    /\ del.comments = { }
    /\ mutex = Unlocked
    /\ repo' = [repo EXCEPT !.posts = @ \ { del.id }]
    /\ last' = Op("DeletePost", "repository", del.id, del.id, del.n, NoErr)
    /\ del' = NoDelete
    /\ UNCHANGED << search, service, fs, wiring, store, calls, seqBase, mutex, creating >>

\* ---- services over the Badger repositories: IDs from stored sequences.
\* Mutant of getNextID: the stored counter is written back without the
\* increment.
getNextIDNoIncrement(seq, seqKey) ==
    LET id == IF seq[seqKey] = KeyNotFound THEN 1 ELSE idOfBytes(seq[seqKey])
    IN  [id |-> id, seq |-> [seq EXCEPT ![seqKey] = idBytes(id)]]

\* common.go 21-46: 1 when the key is absent, else the stored four bytes
\* plus one; the new value is stored as four bytes.
getNextID(seq, seqKey) ==
    LET id == IF seq[seqKey] = KeyNotFound THEN 1 ELSE idOfBytes(seq[seqKey]) + 1
    IN  [id |-> id, seq |-> [seq EXCEPT ![seqKey] = idBytes(id)]]

\* post_repository.go 44-67.
GetByID(s, id) ==
    IF id \in s.posts THEN [post |-> id, err |-> NoErr] ELSE [post |-> 0, err |-> ErrNotFound]

\* comment_repository.go 84-111: the keys under "comment:<postID>:".
ListByPost(s, postID) == { c \in s.comments : c.PostID = postID }

\* The post IDs a caller may name: none, and the IDs the sequence can give.
PostRefs == { 0 } \cup { seqBase[PostSeqKey] + i : i \in 1..MaxCalls }

\* common_test.go 12-76: one transaction that calls getNextID n times on
\* one key and commits.
RECURSIVE CallTimes(_, _, _)
CallTimes(seq, seqKey, n) ==
    IF n = 0 THEN [ids |-> << >>, seq |-> seq]
    ELSE LET first == getNextID(seq, seqKey)
             rest == CallTimes(first.seq, seqKey, n - 1)
         IN  [ids |-> << first.id >> \o rest.ids, seq |-> rest.seq]

UpdateGetNextID(seqKey, n) ==
    LET r == CallTimes(store.seq, seqKey, n) IN
    /\ wiring = "services"
    /\ Len(calls[seqKey]) + n <= MaxCalls
    /\ store' = [store EXCEPT !.seq = r.seq]
    /\ calls' = [calls EXCEPT ![seqKey] = @ \o r.ids]
    /\ last' = Op("getNextID", "service", r.ids[n], 0, n, NoErr)
    /\ UNCHANGED << search, service, fs, wiring, repo, seqBase, callers >>

\* A comment as the services store it (models.Comment), and the fields of
\* a post kept next to its key (models.Post).
StoredComment(id, postID, createdAt, content) ==
    [ID |-> id, PostID |-> postID, CreatedAt |-> createdAt, Content |-> content]

PostData(createdAt, content) == [CreatedAt |-> createdAt, Content |-> content]

\* time.Now() at a create, read off the creates of its kind: later than
\* the time of every record of the kind stored so far.
Now(seqKey) == Len(calls[seqKey]) + 1

\* txn.Set and txn.Delete on the fields of the posts.
Put(f, k, v) == [x \in DOMAIN f \cup { k } |-> IF x = k THEN v ELSE f[x]]
Drop(f, k) == [x \in DOMAIN f \ { k } |-> f[x]]

\* post_service.go 25-37 over post_repository.go 22-42: the creation time
\* set, the next ID of "seq:post" taken, the post stored under "post:<id>"
\* in one transaction.
PostServiceCreatePost ==
    LET r == getNextID(store.seq, PostSeqKey) IN
    /\ wiring = "services"
    /\ Len(calls[PostSeqKey]) < MaxCalls
    /\ store' = [store EXCEPT !.seq = r.seq, !.posts = @ \cup { r.id },
                              !.postData = Put(@, r.id, PostData(Now(PostSeqKey), "created"))]
    /\ calls' = [calls EXCEPT ![PostSeqKey] = Append(@, r.id)]
    /\ last' = Op("CreatePost", "service", r.id, 0, 0, NoErr)
    /\ UNCHANGED << search, service, fs, wiring, repo, seqBase, callers >>

\* Mutant of CommentServiceCreateComment: the post is not looked up.
CommentServiceCreateCommentUnchecked(postID) ==
    LET r == getNextID(store.seq, CommentSeqKey) IN
    /\ wiring = "services"
    /\ Len(calls[CommentSeqKey]) < MaxCalls
    /\ store' = [store EXCEPT !.seq = r.seq,
                              !.comments = @ \cup
                                  { StoredComment(r.id, postID, Now(CommentSeqKey), "created") }]
    /\ calls' = [calls EXCEPT ![CommentSeqKey] = Append(@, r.id)]
    /\ last' = Op("CreateComment", "service", r.id, postID, 0, NoErr)
    /\ UNCHANGED << search, service, fs, wiring, repo, seqBase, callers >>

\* comment_service.go 25-42 over comment_repository.go 20-41, for a comment
\* with a valid author and content: the post ID validated (96-99), the
\* post looked up, the creation time set, and only then the comment
\* created with the next ID of "seq:comment".
CommentServiceCreateComment(postID) ==
    /\ wiring = "services"
    /\ IF postID <= 0
       THEN /\ last' = Op("CreateComment", "service", 0, postID, 0, "invalid post ID")
            /\ UNCHANGED << search, service, fs, wiring, repo, store, calls, seqBase, callers >>
       ELSE IF GetByID(store, postID).err # NoErr
       THEN /\ last' = Op("CreateComment", "service", 0, postID, 0, "post not found")
            /\ UNCHANGED << search, service, fs, wiring, repo, store, calls, seqBase, callers >>
       ELSE LET r == getNextID(store.seq, CommentSeqKey) IN
            /\ Len(calls[CommentSeqKey]) < MaxCalls
            /\ store' = [store EXCEPT !.seq = r.seq,
                                      !.comments = @ \cup
                                          { StoredComment(r.id, postID, Now(CommentSeqKey), "created") }]
            /\ calls' = [calls EXCEPT ![CommentSeqKey] = Append(@, r.id)]
            /\ last' = Op("CreateComment", "service", r.id, postID, 0, NoErr)
            /\ UNCHANGED << search, service, fs, wiring, repo, seqBase, callers >>

\* post_service.go 106-122 run to its return with no other caller in
\* between: the comments of the post listed and deleted one by one, then
\* post_repository.go 131-146, which fails for a post that is not stored.
PostServiceDeletePost(id) ==
    LET comments == ListByPost(store, id)
        afterComments == [store EXCEPT !.comments = @ \ comments]
    IN
    /\ wiring = "services"
    /\ store' = [afterComments EXCEPT !.posts = @ \ { id }, !.postData = Drop(@, id)]
    /\ last' = Op("DeletePost", "service", id, id, Cardinality(comments),
                  GetByID(afterComments, id).err)
    /\ UNCHANGED << search, service, fs, wiring, repo, calls, seqBase, callers >>

WorkerStep(w) ==
    \/ CtxDone(w)
    \/ Default(w)
    \/ Generate(w)
    \/ Count(w)
    \/ Match(w)
    \/ NoMatch(w)
    \/ Handoff(w)

CoordinatorStep ==
    \/ Spawn
    \/ AwaitResult
    \/ Cancel
    \/ MkdirAll
    \/ WriteSecret
    \/ WritePublic
    \/ WriteHostname
    \/ Report

Next ==
    \/ \E w \in Workers : WorkerStep(w)
    \/ CoordinatorStep

Spec == Init /\ [][Next]_vars

\* The search in an environment that may ask it to stop.
NextStop ==
    \/ Next
    \/ RequestStop

SpecStop == Init /\ [][NextStop]_vars

\* Every goroutine that can run is eventually scheduled.
FairSpec ==
    /\ Spec
    /\ \A w \in Workers : WF_vars(WorkerStep(w))
    /\ WF_vars(CoordinatorStep)

\* A run of two workers over a wide random source: the codec and the
\* expansion applied to many keys.
InitCodec ==
    /\ prefix \in { << >>, << "a" >> }
    /\ workers = 2
    /\ saveMode \in BOOLEAN
    /\ randSeeds = 0..(NumCodecSeeds - 1)
    /\ envDataDir = Unset
    /\ InitState

SpecCodec == InitCodec /\ [][Next]_vars

\* vanity.go 49 with a key source that eventually yields a key whose
\* address matches the prefix: within the bounded run, the last keypair the
\* bound permits is such a key.
GenerateEventually(w) ==
    /\ Generate(w)
    /\ \/ hist.generated + 1 < MaxAttempts
       \/ Matches(OnionAddr(pub'[w]), prefixLower)

WorkerStepPrefix(w) ==
    \/ CtxDone(w)
    \/ Default(w)
    \/ GenerateEventually(w)
    \/ Count(w)
    \/ Match(w)
    \/ NoMatch(w)
    \/ Handoff(w)

NextPrefix ==
    \/ \E w \in Workers : WorkerStepPrefix(w)
    \/ CoordinatorStep

\* vanity_test.go 97-115: the search for the prefix "a".
InitPrefix ==
    /\ prefix = << "a" >>
    /\ workers \in 1..MaxWorkers
    /\ saveMode \in BOOLEAN
    /\ randSeeds = 0..(NumSeeds - 1)
    /\ envDataDir = Unset
    /\ InitState

\* Every goroutine that can run is eventually scheduled.
FairSpecPrefix ==
    /\ InitPrefix
    /\ [][NextPrefix]_vars
    /\ \A w \in Workers : WF_vars(WorkerStepPrefix(w))
    /\ WF_vars(CoordinatorStep)

\* A process is wired to one of the two implementations: the services over
\* the Badger repositories (post_controller.go 46-48) or the Repository.
Wirings == { "services", "repository" }

\* The stored sequence values a database is opened with: none, and
\* values at which the next ID carries into the next byte.
SeqStarts == { 0, 255, 65535 }

\* The databases as opened; no search runs.
InitBlog ==
    /\ prefix = << >>
    /\ workers = 0
    /\ saveMode = FALSE
    /\ randSeeds = 0..(NumSeeds - 1)
    /\ envDataDir = Unset
    /\ SearchInit
    /\ fs = EmptyFs
    /\ vanityJson = NoJson
    /\ pristine = EmptyFs
    /\ ServiceInit
    /\ wiring \in Wirings
    /\ repo = EmptyRepo
    /\ last = NoOp
    /\ calls = [k \in SeqKeys |-> << >>]
    /\ seqBase \in IF wiring = "services" THEN [SeqKeys -> SeqStarts]
                                            ELSE { [k \in SeqKeys |-> 0] }
    /\ store = [EmptyStore EXCEPT !.seq =
                    [k \in SeqKeys |-> IF seqBase[k] = 0 THEN KeyNotFound
                                       ELSE idBytes(seqBase[k])]]
    /\ mutex = Unlocked
    /\ creating = [c \in Creators |-> NoCreate]
    /\ del = NoDelete

\* comment_repository.go 44-80: the stored comments with the ID id.
CommentsByID(s, id) == { c \in s.comments : c.ID = id }

\* The comment IDs a caller may name, and the creation times (the zero
\* time of a decoded request) and contents a caller may supply.
CommentRefs == { seqBase[CommentSeqKey] + i : i \in 1..MaxCalls }
SuppliedTimes == { 0 }
SuppliedContents == { "edited" }

\* Mutant of CommentServiceUpdateComment: the comment is stored as
\* supplied.
CommentServiceUpdateCommentAsSupplied(id, postID, createdAt, content) ==
    LET supplied == StoredComment(id, postID, createdAt, content)
        found == CommentsByID(store, id)
    IN
    /\ wiring = "services"
    /\ IF postID <= 0
       THEN /\ last' = Op("UpdateComment", "service", id, postID, 0, "invalid post ID")
            /\ UNCHANGED store
       ELSE IF found = { }
       THEN /\ last' = Op("UpdateComment", "service", id, postID, 0, ErrNotFound)
            /\ UNCHANGED store
       ELSE /\ store' = [store EXCEPT !.comments = (@ \ found) \cup { supplied }]
            /\ last' = Op("UpdateComment", "service", id, postID, 0, NoErr)
    /\ UNCHANGED << search, service, fs, wiring, repo, calls, seqBase, callers >>

\* comment_service.go 61-82 over comment_repository.go 114-149, for a
\* comment with a valid author and content: the post ID validated, the
\* stored comment looked up by its ID and compared with the post ID
\* supplied, its creation time and post ID copied over the supplied ones,
\* and the result stored under the key of the stored comment.
CommentServiceUpdateComment(id, postID, createdAt, content) ==
    LET supplied == StoredComment(id, postID, createdAt, content)
        found == CommentsByID(store, id)
    IN
    /\ wiring = "services"
    /\ IF postID <= 0
       THEN /\ last' = Op("UpdateComment", "service", id, postID, 0, "invalid post ID")
            /\ UNCHANGED store
       ELSE IF found = { }
       THEN /\ last' = Op("UpdateComment", "service", id, postID, 0, ErrNotFound)
            /\ UNCHANGED store
       ELSE LET existing == CHOOSE c \in found : TRUE IN
            IF existing.PostID # postID
            THEN /\ last' = Op("UpdateComment", "service", id, postID, 0,
                               "comment does not belong to specified post")
                 /\ UNCHANGED store
            ELSE LET comment == [supplied EXCEPT !.CreatedAt = existing.CreatedAt,
                                                !.PostID = existing.PostID]
                 IN  /\ store' = [store EXCEPT !.comments = (@ \ found) \cup { comment }]
                     /\ last' = Op("UpdateComment", "service", id, postID, 0, NoErr)
    /\ UNCHANGED << search, service, fs, wiring, repo, calls, seqBase, callers >>

\* post_service.go 86-103 over post_repository.go 108-128, for a post with
\* a valid title and content: the stored post looked up, its creation time
\* copied over the supplied one, and the result stored under "post:<id>".
PostServiceUpdatePost(id, createdAt, content) ==
    LET supplied == PostData(createdAt, content) IN
    /\ wiring = "services"
    /\ IF GetByID(store, id).err # NoErr
       THEN /\ last' = Op("UpdatePost", "service", id, 0, 0, ErrNotFound)
            /\ UNCHANGED store
       ELSE LET post == [supplied EXCEPT !.CreatedAt = store.postData[id].CreatedAt]
            IN  /\ store' = [store EXCEPT !.postData = Put(@, id, post)]
                /\ last' = Op("UpdatePost", "service", id, 0, 0, NoErr)
    /\ UNCHANGED << search, service, fs, wiring, repo, calls, seqBase, callers >>

\* One caller at a time: every operation runs to its return.
NextBlog ==
    \/ CreatePost
    \/ \E postID \in 1..MaxPosts : CreateComment(postID)
    \/ \E id \in 1..MaxPosts : DeletePost(id)
    \/ \E seqKey \in SeqKeys, n \in 1..2 : UpdateGetNextID(seqKey, n)
    \/ PostServiceCreatePost
    \/ \E postID \in PostRefs : CommentServiceCreateComment(postID)
    \/ \E id \in PostRefs : PostServiceDeletePost(id)

SpecBlog == InitBlog /\ [][NextBlog]_vars

\* The services on a fresh database, with the updates; MaxPosts and
\* MaxComments cap the records created.
InitUpdate ==
    /\ InitBlog
    /\ wiring = "services"
    /\ seqBase = [k \in SeqKeys |-> 0]

NextUpdate ==
    \/ Len(calls[PostSeqKey]) < MaxPosts /\ PostServiceCreatePost
    \/ /\ Len(calls[CommentSeqKey]) < MaxComments
       /\ \E postID \in PostRefs : CommentServiceCreateComment(postID)
    \/ \E id \in PostRefs : PostServiceDeletePost(id)
    \/ \E id \in CommentRefs, postID \in PostRefs, createdAt \in SuppliedTimes,
          content \in SuppliedContents :
            CommentServiceUpdateComment(id, postID, createdAt, content)
    \/ \E id \in PostRefs, createdAt \in SuppliedTimes, content \in SuppliedContents :
            PostServiceUpdatePost(id, createdAt, content)

SpecUpdate == InitUpdate /\ [][NextUpdate]_vars

\* Repository with MaxCreators goroutines creating and one in DeletePost.
InitCascade ==
    /\ InitBlog
    /\ wiring = "repository"

NextCascade ==
    \/ \E c \in Creators : CreatePostScan(c)
    \/ \E c \in Creators : CreatePostSet(c)
    \/ \E c \in Creators, postID \in 1..MaxPosts : CreateCommentScan(c, postID)
    \/ \E c \in Creators : CreateCommentSet(c)
    \/ \E id \in 1..MaxPosts : DeletePostList(id)
    \/ DeletePostComment
    \/ DeletePostKey

SpecCascade == InitCascade /\ [][NextCascade]_vars

\* A search that has found nothing in its first ProgressStart attempts.
ProgressStart == ProgressEvery - 2

\* vanity.go 88: RunVanity in the receive, every worker at the top of its
\* loop, ProgressStart keypairs generated, counted and discarded.
InitProgress ==
    /\ prefix \in { << "0" >>, << "a" >> }
    /\ workers = MaxWorkers
    /\ saveMode = FALSE
    /\ randSeeds = 0..(NumSeeds - 1)
    /\ envDataDir = Unset
    /\ hist = [NoHist EXCEPT !.generated = ProgressStart, !.base = ProgressStart]
    /\ stopRequested = FALSE
    /\ cpc = "recv"
    /\ spawned = workers
    /\ ctxDone = FALSE
    /\ totalAttempts = ProgressStart
    /\ res = NoResult
    /\ wpc = [w \in Workers |-> "select"]
    /\ pub = [w \in Workers |-> << >>]
    /\ priv = [w \in Workers |-> << >>]
    /\ expanded = [w \in Workers |-> << >>]
    /\ onionAddr = [w \in Workers |-> << >>]
    /\ sending = [w \in Workers |-> NoResult]
    /\ out = << >>
    /\ handoffs = 0
    /\ fs = EmptyFs
    /\ vanityJson = NoJson
    /\ pristine = EmptyFs
    /\ ServiceInit
    /\ BlogIdle

\* The worker with the two loads of lines 77 and 78 as two steps.
WorkerStepProgress(w) ==
    \/ CtxDone(w)
    \/ Default(w)
    \/ Generate(w)
    \/ Count(w)
    \/ Match(w)
    \/ NoMatchTest(w)
    \/ ProgressLine(w)
    \/ Handoff(w)

NextProgress ==
    \/ \E w \in Workers : WorkerStepProgress(w)
    \/ Cancel
    \/ Report

SpecProgress == InitProgress /\ [][NextProgress]_vars

\* The search with a random source that may fail.
NextEntropy ==
    \/ Next
    \/ \E w \in Workers : EntropyFails(w)

SpecEntropy == Init /\ [][NextEntropy]_vars

\* The search in an environment where a step of the save may fail, run
\* with a destination the operator supplied.
InitSave ==
    /\ prefix \in { << >>, << "a" >> }
    /\ workers \in 1..MaxWorkers
    /\ saveMode \in BOOLEAN
    /\ randSeeds = 0..(NumSeeds - 1)
    /\ envDataDir \in DataDirs
    /\ InitState

NextSave ==
    \/ Next
    \/ SaveFails

SpecSave == InitSave /\ [][NextSave]_vars

\* The search started with the destination as an earlier run may have left
\* it: empty, or holding the key set an earlier save wrote.
InitResave ==
    /\ prefix \in { << >>, << "a" >> }
    /\ workers \in 1..MaxWorkers
    /\ saveMode \in BOOLEAN
    /\ randSeeds = 0..(NumSeeds - 1)
    /\ envDataDir = Unset
    /\ SearchInit
    /\ fs \in { EmptyFs } \cup { SavedDir(ResultOf(n)) : n \in 0..(NumSeeds - 1) }
    /\ pristine = fs
    /\ vanityJson = NoJson
    /\ ServiceInit
    /\ BlogIdle

SpecResave == InitResave /\ [][NextSave]_vars

\* A search by two workers next to a directory that is absent or holds the
\* key files of an earlier result.
InitReport ==
    /\ InitResave
    /\ workers = 2

SpecReport == InitReport /\ [][NextSave]_vars

\* The directories the service is started on: empty, left by a save, or
\* installed by hand.
ServiceDirs ==
    ({ EmptyFs } \cup { SavedDir(ResultOf(n)) : n \in ServiceSeedIds })
    \cup UNION { { InstalledDir(n, a) : a \in InstalledAddrs(n) } : n \in ServiceSeedIds }

\* The address a hostname file names, without the suffix ".onion".
BareAddr(hostnameData) ==
    SubSeq(hostnameData, 1, Len(hostnameData) - Len(onionSuffix))

\* The vanity.json files found next to the key files f: none, one that is
\* no JSON, one naming the hostname file's name, one naming the bare
\* address.
JsonChoices(f) ==
    { NoJson, BadJson }
    \cup (IF f.hostname = NoFile
          THEN { VanityKey(DerivedAddrTable[0]) }
          ELSE { VanityKey(TrimSpace(f.hostname)), VanityKey(BareAddr(f.hostname)) })

\* The service started on a directory of ServiceDirs; no search runs.
InitService ==
    /\ prefix = << >>
    /\ workers = 1
    /\ saveMode = TRUE
    /\ randSeeds = ServiceSeedIds
    /\ envDataDir = Unset
    /\ SearchInit
    /\ fs \in ServiceDirs
    /\ pristine = fs
    /\ vanityJson \in JsonChoices(fs)
    /\ ServiceInit
    /\ BlogIdle

NextService ==
    \/ FlipPublicByte
    \/ DamageSecret
    \/ StatVanityKey
    \/ ReadVanityKey
    \/ CheckSecret
    \/ CheckPublic
    \/ CheckHostname
    \/ TempMode
    \/ WriteTorrc
    \/ Serve
    \/ StartTor

SpecService == InitService /\ [][NextService]_vars

\* ================================================================ claims
AfterReceive == {"cancel", "mkdir", "writeSecret", "writePublic",
                 "writeHostname", "report", "done"}
Saving == {"mkdir", "writeSecret", "writePublic", "writeHostname"}
Gone == {"idle", "exited"}

\* C1: a search hands exactly one result to the caller: at most one send on
\* the channel ever completes, RunVanity holds no result before it and the
\* result of that first send from then on, whatever later matches exist.
C1_ExactlyOneResult ==
    /\ handoffs <= 1
    /\ cpc \in {"spawn", "recv"} => handoffs = 0 /\ res = NoResult
    /\ cpc \in AfterReceive => handoffs = 1 /\ res # NoResult

\* C1 witness: RunVanity has returned with its result while another worker
\* holds a different match.
C1_Witness ==
    /\ cpc = "done"
    /\ \E w \in Workers : wpc[w] = "send" /\ sending[w].onionAddr # res.onionAddr

\* C2: once the cancellation signal is set every worker goroutine
\* eventually is gone (none left running or blocked for ever).
C2_NoLeakedWorker == ctxDone ~> (\A w \in Workers : wpc[w] \in Gone)

\* C3: a worker that arrives at the handoff after a result has been
\* accepted completes its send: the send step is enabled for it.
C3_LateSendCompletes ==
    \A w \in Workers : (wpc[w] = "send" /\ handoffs >= 1) => ENABLED Handoff(w)

\* C4: with a non-empty prefix, the returned address lowercased starts
\* with the prefix lowercased, character by character.
C4_PrefixContainment ==
    (res # NoResult /\ prefix # << >>) =>
        /\ Len(res.onionAddr) >= Len(prefix)
        /\ \A k \in 1..Len(prefix) :
              ToLowerChar(res.onionAddr[k]) = ToLowerChar(prefix[k])

\* C4 witness: a result returned for the upper-case prefix "A".
C4_Witness == cpc = "done" /\ prefix = << "A" >> /\ res # NoResult

\* C5: with an empty prefix every keypair matches and no worker begins a
\* second iteration: a worker leaves the match test only for the send, and
\* no more keypairs are generated than workers were started.
C5_EmptyPrefixImmediate ==
    /\ [](prefix = << >> =>
            totalAttempts + Cardinality({ v \in Workers : wpc[v] \in {"generate", "count"} })
                <= spawned)
    /\ [][prefix = << >> =>
            \A w \in Workers : wpc[w] = "match" => wpc'[w] \in {"match", "send"}]_vars

\* C5 witness: empty prefix, result reported, each worker generated once.
C5_Witness ==
    /\ prefix = << >>
    /\ cpc = "done"
    /\ workers = MaxWorkers
    /\ totalAttempts = workers
    /\ res.attempts = 1

\* C6: once a stop has been requested, a worker that polls the signal
\* begins no further iteration.
C6_StopHonored ==
    [][\A w \in Workers :
          (stopRequested /\ wpc[w] = "select") => wpc'[w] # "generate"]_vars

\* C7: no key file is being written (nor the directory made) while a worker
\* goroutine is not yet gone.
C7_SaveAfterJoin == cpc \in Saving => \A w \in Workers : wpc[w] \in Gone

\* C8: every expanded scalar is 64 bytes whose byte 0 has its low 3 bits
\* clear and whose byte 31 has its high bit clear and its second-highest
\* bit set.
Clamped(e) ==
    /\ Len(e) = 64
    /\ e[1] % 8 = 0
    /\ e[32] \div 128 = 0
    /\ (e[32] \div 64) % 2 = 1

C8_ClampingInvariants ==
    /\ \A w \in Workers : expanded[w] # << >> => Clamped(expanded[w])
    /\ res # NoResult => Clamped(res.expanded)

\* C8 witness: an expansion of a seed whose digest had low bits of byte 0
\* set, the high bit of byte 31 set and its second-highest bit clear.
C8_Witness ==
    \E w \in Workers :
        /\ expanded[w] # << >>
        /\ LET h == Sum512(SubSeq(priv[w], 1, 32))
           IN h[1] % 8 # 0 /\ h[32] >= 128 /\ (h[32] \div 64) % 2 = 0

\* C9: decoding an encoded address gives back the public key, the version
\* and the first two bytes of the hash of ".onion checksum" || pk || version;
\* the address is 56 characters of the lowercase alphabet (anything else
\* decodes to Malformed).
\* decode and the independently computed checksum, tabulated over the
\* addresses and keys of the bounded source.
DecodeTable == [a \in { OnionAddr(pk) : pk \in PublicKeys } |-> Decode(a)]

IndependentChecksum ==
    [pk \in PublicKeys |->
        SubSeq(Sum256((checksumPrefix \o pk) \o << version >>), 1, 2)]

RoundTrips(pk, addr) ==
    /\ DecodeTable[addr] # Malformed
    /\ DecodeTable[addr].publicKey = pk
    /\ DecodeTable[addr].version = version
    /\ DecodeTable[addr].checksum = IndependentChecksum[pk]

C9_RoundTrip ==
    /\ \A w \in Workers : onionAddr[w] # << >> => RoundTrips(pub[w], onionAddr[w])
    /\ res # NoResult => RoundTrips(res.finalPub, res.onionAddr)

\* C9 witness: an encoded address whose checksum bytes and key are not
\* all alike.
C9_Witness ==
    \E w \in Workers :
        /\ onionAddr[w] # << >>
        /\ DecodeTable[onionAddr[w]].checksum # << 0, 0 >>
        /\ pub[w][1] >= 8

SavedDirs == { SavedDir(ResultOf(n)) : n \in ServiceSeedIds }

\* Positions of the start-up after the check of the secret file, after
\* all checks, after torrc is written, and after the HTTP service is
\* started.
PastSecret == { "public", "hostname", "torrc", "serve", "tor", "running" }
PastChecks == { "torrc", "serve", "tor", "running" }
Configured == { "serve", "tor", "running" }
ServiceStarted == { "tor", "running" }

\* The key set was loaded and every check passed.
Verified == persistent /\ spc \in PastChecks

StoredPub(f) == SubSeq(f.public, 33, 64)

\* The public key the address in the hostname file spells.
HostnameKey(f) ==
    LET d == Decode(BareAddr(f.hostname))
    IN IF d = Malformed THEN << >> ELSE d.publicKey

\* Every check of main.go 150-205 passes on the files f with vanity.json j.
Validates(f, j) ==
    /\ j.present /\ j.parses
    /\ f.secret # NoFile /\ SecretFormatOk(f.secret)
    /\ f.public # NoFile /\ PublicFormatOk(f.public)
    /\ StoredPub(f) = DerivedPublic(SubSeq(f.secret, 33, 64))
    /\ f.hostname # NoFile /\ TrimSpace(f.hostname) = j.OnionAddress

SingleByteChanged(a, b) ==
    Len(a) = Len(b) /\ Cardinality({ k \in 1..Len(a) : a[k] # b[k] }) = 1

\* C11: a directory left by a save, started on with a vanity.json that
\* names its hostname, is never rejected by the start-up's checks.
C11_PersistenceRoundTrip ==
    (fs \in SavedDirs /\ vanityJson = VanityKey(TrimSpace(fs.hostname)))
        => failure = NoFailure

\* C12: the start-up passes its checks only when the key derived from the
\* secret file, the key bytes of the public-key file and the key the
\* hostname file's address spells are all the same.
C12_ThreeWayAgreement ==
    Verified => /\ derivedPub = StoredPub(fs)
                /\ HostnameKey(fs) = StoredPub(fs)

\* C13: when the directory as provisioned passes every check and one byte
\* of its public-key file is then changed, the start-up never gets past
\* the check of the public key, and where it ends it ends on that check.
C13_CorruptionDetected ==
    ( /\ Validates(pristine, vanityJson)
      /\ fs.secret = pristine.secret
      /\ fs.hostname = pristine.hostname
      /\ SingleByteChanged(pristine.public, fs.public) )
        => /\ spc \notin { "hostname", "torrc", "serve", "tor", "running" }
           /\ spc = "fatal" =>
                 failure \in { "Public key file has invalid format",
                               "Public key mismatch" }

\* C13 witness: a NUL of the header's padding was changed in a directory
\* that passed before, and the start-up ended on the format check.
C13_Witness ==
    /\ Validates(pristine, vanityJson)
    /\ SingleByteChanged(pristine.public, fs.public)
    /\ fs.public[32] # 0
    /\ spc = "fatal"
    /\ failure = "Public key file has invalid format"

\* C14: the start-up gets past the check of the secret file only when the
\* file is 96 bytes and begins with the 29-character tag and three NULs.
C14_SecretFormatEnforced ==
    (persistent /\ spc \in PastSecret)
        => /\ Len(fs.secret) = 96
           /\ SubSeq(fs.secret, 1, 32) = secretHeader
           /\ \A k \in 1..29 : fs.secret[k] \in 32..126
           /\ \A k \in 30..32 : fs.secret[k] = 0

\* C14 witness: a secret file of the right length whose last padding byte
\* is not NUL was rejected for its format.
C14_Witness ==
    /\ spc = "fatal"
    /\ failure = "Secret key file has invalid format"
    /\ Len(fs.secret) = 96
    /\ SubSeq(fs.secret, 1, 31) = SubSeq(secretHeader, 1, 31)
    /\ fs.secret[32] # 0

\* C15 as stated: a failed check ends the start-up for good, and the HTTP
\* service and Tor are started only after the key set was verified.
C15_StartedOnlyVerified ==
    /\ failure # NoFailure => spc = "fatal"
    /\ spc \in ServiceStarted => Verified

\* C15: a failed check ends the start-up for good and nothing is started
\* after it; the HTTP service and Tor are started only when no check
\* failed: after a vanity.json was found and every check passed, or when
\* no vanity.json was found and no check was run.
C15_CorruptIsTerminal ==
    /\ failure # NoFailure => spc = "fatal"
    /\ spc \in ServiceStarted =>
          /\ failure = NoFailure
          /\ vanityJson.present => (Verified /\ Validates(fs, vanityJson))

\* C15 witness: the hostname check failed on a directory whose key files
\* had passed, and the start-up is over.
C15_Witness ==
    /\ spc = "fatal"
    /\ failure = "Hostname mismatch"
    /\ StoredPub(fs) = derivedPub

\* C16: whenever torrc has been written for a directory holding a saved
\* key set, that key set was loaded and verified first.
C16_VerifiedBeforeTransport ==
    (spc \in Configured /\ fs \in SavedDirs) => Verified

\* The three files of the received result are all there, or none is.
AllThree == fs.secret = secretData(res) /\ fs.public = pubData(res)
            /\ fs.hostname = hostnameContent(res)
NoneOfThree == fs.secret = NoFile /\ fs.public = NoFile /\ fs.hostname = NoFile

\* C17: when a save has returned or failed, the directory holds all three
\* files of the new key set or none of them.
C17_SaveAtomic ==
    (saveMode /\ cpc \in { "done", "fatal" }) => (AllThree \/ NoneOfThree)

\* C18: after a save the secret-key file is the 32-byte header (29
\* characters and three NULs) and the 64-byte expanded scalar of the result,
\* the public-key file is the 32-byte header and the 32-byte public key of
\* the result, and the hostname file is the result's address, ".onion" and
\* one newline.
C18_FileLayout ==
    (saveMode /\ cpc = "done") =>
        /\ Len(fs.secret) = 96
        /\ SubSeq(fs.secret, 1, 32) = secretHeader
        /\ \A k \in 30..32 : fs.secret[k] = 0
        /\ SubSeq(fs.secret, 33, 96) = res.expanded
        /\ Len(fs.public) = 64
        /\ SubSeq(fs.public, 1, 32) = publicHeader
        /\ \A k \in 30..32 : fs.public[k] = 0
        /\ SubSeq(fs.public, 33, 64) = res.finalPub
        /\ Len(fs.hostname) = Len(res.onionAddr) + 7
        /\ SubSeq(fs.hostname, 1, Len(res.onionAddr)) = res.onionAddr
        /\ SubSeq(fs.hostname, Len(res.onionAddr) + 1, Len(fs.hostname))
              = << ".", "o", "n", "i", "o", "n", "\n" >>
        /\ \A k \in 1..(Len(fs.hostname) - 1) : fs.hostname[k] # "\n"
        /\ fs = SavedDir(res)

\* C18 witness: a save of a result found for the prefix "a" has returned.
C18_Witness ==
    /\ saveMode
    /\ cpc = "done"
    /\ prefix = << "a" >>
    /\ res.finalPub # << >>
    /\ fs.hostname[1] = "a"

\* C19: after a run with the save flag and a destination supplied, the
\* three files are in that destination and the hostname file ends with
\* ".onion" and a newline.
C19_SavedUnderSuppliedDir ==
    (saveMode /\ cpc = "done" /\ envDataDir # Unset) =>
        LET d == DirContents(envDataDir)
        IN /\ d.secret # NoFile
           /\ d.public # NoFile
           /\ d.hostname # NoFile
           /\ Len(d.hostname) >= 7
           /\ SubSeq(d.hostname, Len(d.hostname) - 6, Len(d.hostname)) = onionSuffix

\* C20: the key the start-up derives from a saved secret file is the
\* public key of the scalar stored there, which is the public key of the
\* keypair the scalar was expanded from.
C20_ScalarUsedDirectly ==
    \A n \in ServiceSeedIds :
        (persistent /\ spc \in PastSecret /\ fs.secret = secretData(ResultOf(n)))
            => /\ derivedPub = ScalarBaseMult(SubSeq(fs.secret, 33, 64))
               /\ derivedPub = ResultOf(n).finalPub

\* ---- failures, prefixes and the counter
EntropyFailed == \E i \in 1..Len(out) : out[i] = << "Failed to generate key pair" >>

ImpossiblePrefix ==
    \E i \in 1..Len(prefixLower) :
        \A k \in 1..Len(addressAlphabet) : addressAlphabet[k] # prefixLower[i]

\* C22: for a prefix with a character outside the address alphabet no
\* worker is ever started and no keypair is ever generated.
C22_InvalidPrefixRejected ==
    ImpossiblePrefix =>
        /\ spawned = 0
        /\ \A w \in Workers : wpc[w] = "idle"
        /\ totalAttempts = 0

C24_CascadingDelete ==
    (last.op = "DeletePost" /\ last.err = NoErr) =>
        IF last.layer = "repository"
        THEN /\ GetPost(repo, last.id).err = ErrNotFound
             /\ ListCommentsByPost(repo, last.id) = { }
        ELSE /\ GetByID(store, last.id).err = ErrNotFound
             /\ ListByPost(store, last.id) = { }

\* C24 witness: Repository.DeletePost returned for a post that had two
\* comments.
C24_Witness ==
    /\ last.op = "DeletePost"
    /\ last.layer = "repository"
    /\ last.err = NoErr
    /\ last.n = 2

\* C25: the IDs getNextID has returned for a sequence key are, in the
\* order of the calls, one more than the counter the database was opened
\* with, then one more each time, whatever was called on the other key and
\* however the calls were spread over transactions.
C25_SequentialIds ==
    \A k \in SeqKeys :
        /\ \A i \in 1..Len(calls[k]) : calls[k][i] = seqBase[k] + i
        /\ store.seq[k] = IF seqBase[k] + Len(calls[k]) = 0 THEN KeyNotFound
                          ELSE idBytes(seqBase[k] + Len(calls[k]))

\* C25 witness: on a fresh database three calls on one key returned
\* 1, 2, 3 while the other key, called in between, is at 1.
C25_Witness ==
    /\ seqBase = [k \in SeqKeys |-> 0]
    /\ calls[PostSeqKey] = << 1, 2, 3 >>
    /\ calls[CommentSeqKey] = << 1 >>
    /\ last.op = "getNextID"

\* C26: a CommentService.CreateComment that names a post which is not
\* stored returns an error, stores nothing and takes no ID from the
\* comment sequence.
C26_CommentNeedsPost ==
    [][ (/\ last'.op = "CreateComment"
         /\ last'.layer = "service"
         /\ last'.postID \notin store.posts)
        => (/\ last'.err # NoErr
            /\ store' = store
            /\ calls' = calls) ]_vars

\* C26 witness: CreateComment was refused for a post ID that is not stored
\* while another post is, and comments have been created before.
C26_Witness ==
    /\ last.op = "CreateComment"
    /\ last.layer = "service"
    /\ last.err = "post not found"
    /\ last.postID \notin store.posts
    /\ store.posts # { }
    /\ Len(calls[CommentSeqKey]) >= 1

\* ---- the attempt counter
\* Keypairs generated whose increment of the counter has not run yet.
Generating == Cardinality({ w \in Workers : wpc[w] = "count" })

\* C27 as stated: in every reachable state the counter equals the number
\* of keypairs generated so far by all workers.
C27_CounterEqualsGenerated == totalAttempts = hist.generated

\* C27 amended: the counter never decreases, every step changes it by at
\* most one, and it equals the number of keypairs generated less those
\* whose worker is between the generation and its increment; no increment
\* is lost. The result returned is a matching keypair's own address,
\* whatever the counter holds.
C27_CounterTracksGenerated ==
    [][ /\ totalAttempts' \in { totalAttempts, totalAttempts + 1 }
        /\ totalAttempts' + Generating' = hist'.generated
        /\ totalAttempts + Generating = hist.generated
        /\ handoffs' = 1 =>
                /\ Matches(res'.onionAddr, prefixLower)
                /\ res'.onionAddr = OnionAddr(res'.finalPub) ]_vars

\* C27 witness: two workers have each generated and counted a keypair.
C27_Witness ==
    /\ totalAttempts >= 2
    /\ hist.generated = totalAttempts
    /\ \A w \in Workers : wpc[w] \notin { "idle", "generate", "count" }

\* ---- progress
\* The positions of the progress lines in the log: "Total Attempts" lines
\* other than the last line of the final report.
ProgressLines ==
    { i \in 1..Len(out) :
        /\ out[i][1] = "Total Attempts"
        /\ i = 1 \/ out[i - 1][1] # "Expanded Private Key (hex)" }

\* The search is still looking: nothing handed over, no worker between its
\* increment and the end of its iteration.
Searching ==
    /\ cpc = "recv"
    /\ \A w \in Workers : wpc[w] \in { "select", "generate", "count" }

\* C28: every progress line carries a multiple of ProgressEvery, no count
\* is reported twice, and once the counter has reached a multiple and the
\* iterations that counted up to it are over, that multiple has been
\* reported.
C28_ProgressExactlyOnce ==
    /\ \A i \in ProgressLines : out[i][2] % ProgressEvery = 0
    /\ \A i, j \in ProgressLines : out[i][2] = out[j][2] => i = j
    /\ (Searching /\ totalAttempts >= ProgressEvery) =>
            \E i \in ProgressLines : out[i][2] = ProgressEvery

\* ---- after cancellation
\* C29: after the cancellation signal is set each worker generates at most
\* one more keypair, the counter grows by at most the number of workers,
\* and every worker comes back to the poll of the signal, where it exits:
\* none is held up anywhere else.
C29_BoundedAfterCancel ==
    ctxDone =>
        /\ \A w \in Workers : hist.late[w] <= 1
        /\ totalAttempts - hist.atCancel <= workers
        /\ \A w \in Workers : wpc[w] # "send"

\* ---- the expansion
\* C30: a worker that is about to test its address against the prefix has
\* not expanded the scalar yet, and a keypair whose address does not match
\* is never expanded.
C30_LazyExpansion ==
    \A w \in Workers :
        (wpc[w] = "match" /\ ~Matches(onionAddr[w], prefixLower)) => expanded[w] = << >>

\* ---- the destination directory
\* The key files present are all files of the key set of result r.
FilesOf(r) ==
    /\ fs.secret \in { NoFile, secretData(r) }
    /\ fs.public \in { NoFile, pubData(r) }
    /\ fs.hostname \in { NoFile, hostnameContent(r) }

\* C31: whatever the directory held before and wherever a save stands or
\* stopped, the key files present are files of one and the same result.
C31_OneKeySet ==
    \E n \in 0..(NumSeeds - 1) : FilesOf(ResultOf(n))

\* ---- updates
\* C32: no step of the services changes the PostID or the CreatedAt of a
\* stored comment, or the CreatedAt of a stored post; an UpdateComment for
\* a comment that is not stored, or with a PostID other than the stored
\* one, and an UpdatePost for a post that is not stored, end in an error
\* and change nothing.
C32_IdentityFieldsKept ==
    [][ /\ \A c \in store.comments : \A d \in store'.comments :
              d.ID = c.ID => (d.PostID = c.PostID /\ d.CreatedAt = c.CreatedAt)
        /\ \A p \in store.posts \cap store'.posts :
              store'.postData[p].CreatedAt = store.postData[p].CreatedAt
        /\ (/\ last'.op = "UpdateComment"
            /\ \/ CommentsByID(store, last'.id) = { }
               \/ \E c \in CommentsByID(store, last'.id) : c.PostID # last'.postID)
           => (last'.err # NoErr /\ store' = store)
        /\ (last'.op = "UpdatePost" /\ last'.id \notin store.posts)
           => (last'.err # NoErr /\ store' = store) ]_vars

\* C32 witness: an UpdateComment went through with a supplied creation time
\* other than the stored one, after a post had been updated too.
C32_Witness ==
    /\ last.op = "UpdateComment"
    /\ last.err = NoErr
    /\ \E c \in store.comments :
          c.ID = last.id /\ c.Content = "edited" /\ c.CreatedAt \notin SuppliedTimes
    /\ \E p \in store.posts :
          store.postData[p].Content = "edited"
          /\ store.postData[p].CreatedAt \notin SuppliedTimes

\* ---- the returned result
\* A result value whose three key fields belong to one keypair of the
\* random source.
OneKeypair(r) ==
    \E n \in randSeeds :
        /\ r.finalPub = GenerateKey(SeedOf(n)).pub
        /\ r.onionAddr = OnionAddr(r.finalPub)
        /\ r.expanded = Expand(SeedOf(n))

\* C33: the result the coordinator received, and every result a worker is
\* about to send, has the public key, the address and the expanded scalar
\* of one and the same generated keypair.
C33_ResultFromOneKeypair ==
    /\ res # NoResult => OneKeypair(res)
    /\ \A w \in Workers : sending[w] # NoResult => OneKeypair(sending[w])

\* C33 witness: a result was received while another worker holds a
\* different keypair with its own scalar and address.
C33_Witness ==
    /\ res # NoResult
    /\ \E v \in Workers :
          /\ expanded[v] # << >>
          /\ expanded[v] # res.expanded
          /\ pub[v] # res.finalPub
          /\ onionAddr[v] # res.onionAddr

\* ---- the worker count
\* C34: the coordinator never waits in the receive with no worker started:
\* whatever worker count the flag carries, a coordinator that has finished
\* the start-up loop and blocks for a result has at least one worker.
C34_NeverWaitsWithoutWorker == cpc = "recv" => spawned >= 1

\* ---- Repository under concurrent callers
\* C35: at the step at which DeletePost(id) deletes a stored post and
\* returns nil, no comment with PostID = id is left in the store, whatever
\* CreateComment calls ran between its steps.
C35_NoOrphanAfterDelete ==
    [][ (del.pc = "comments" /\ del'.pc = "idle" /\ del.id \in repo.posts)
            => ListCommentsByPost(repo', del.id) = { } ]_vars

\* C36: the Set of a create writes an ID that no stored record of its kind
\* has and that is the largest stored ID plus one; every other record is
\* left as it was.
C36_CreateAssignsFreshId ==
    [][ \A c \in Creators :
          /\ (creating[c].pc = "post" /\ creating'[c].pc = "idle") =>
                /\ last'.id \notin repo.posts
                /\ last'.id = MaxOf(repo.posts) + 1
                /\ repo'.posts = repo.posts \cup { last'.id }
                /\ repo'.comments = repo.comments
          /\ (creating[c].pc = "comment" /\ creating'[c].pc = "idle") =>
                /\ CommentsByID(repo, last'.id) = { }
                /\ last'.id = MaxOf({ x.ID : x \in repo.comments }) + 1
                /\ repo'.comments = repo.comments \cup { Comment(last'.id, last'.postID) }
                /\ repo'.posts = repo.posts ]_vars

\* C36 witness: a create has returned ID 2 while another creator waits for
\* the mutex-protected Set of its own, and a DeletePost is under way.
C36_Witness ==
    /\ last.op \in { "CreatePost", "CreateComment" }
    /\ last.id = 2
    /\ \E c \in Creators : creating[c].pc # "idle"
    /\ del.pc = "comments"

\* ---- a search without -save
\* The value of a hex digit.
HexVal(ch) == (CHOOSE k \in 1..16 : hextable[k] = ch) - 1

\* The text s is the lowercase hex notation of the bytes b.
IsHexOf(s, b) ==
    /\ Len(s) = 2 * Len(b)
    /\ \A i \in 1..Len(b) :
          /\ \E k \in 1..16 : hextable[k] = s[2 * i - 1]
          /\ \E k \in 1..16 : hextable[k] = s[2 * i]
          /\ 16 * HexVal(s[2 * i - 1]) + HexVal(s[2 * i]) = b[i]

\* C37: without the save flag the directory, present or not, stays as it
\* was found through the whole run, and a completed search has logged
\* exactly the address, the public key in hex, the expanded scalar in hex
\* and the attempt count of the result.
C37_ReportOnly ==
    ~saveMode =>
        /\ fs = pristine
        /\ cpc = "done" =>
              /\ Len(out) = 4
              /\ out[1] = << "Vanity Onion Address", res.onionAddr >>
              /\ out[2][1] = "Public Key (hex)"
              /\ IsHexOf(out[2][2], res.finalPub)
              /\ out[3][1] = "Expanded Private Key (hex)"
              /\ IsHexOf(out[3][2], res.expanded)
              /\ out[4] = << "Total Attempts", res.attempts >>

\* C37 witness: a search without the save flag has completed next to a
\* directory that holds the key files of another result.
C37_Witness ==
    /\ ~saveMode
    /\ cpc = "done"
    /\ Len(out) = 4
    /\ pristine.dir
    /\ fs.public # pubData(res)
    /\ fs.hostname # hostnameContent(res)

\* ---- clamping
\* The digests of the seeds of the bounded source.
DigestTable == [seed \in Seeds |-> Sum512(seed)]

\* The scalar e is the digest h with nothing but bytes 0 and 31 touched,
\* and the three mask operations applied to e again give e back.
ClampedFrom(e, h) ==
    /\ Len(e) = 64
    /\ \A i \in (1..64) \ { 1, 32 } : e[i] = h[i]
    /\ Clamp(e) = e

\* C38: every expanded scalar a worker holds, and the one of the result,
\* equals the SHA-512 digest of its seed in the 62 bytes other than 0 and
\* 31, and clamping it once more changes nothing.
C38_ClampTouchesTwoBytes ==
    /\ \A w \in Workers :
          expanded[w] # << >> =>
              ClampedFrom(expanded[w], DigestTable[SubSeq(priv[w], 1, 32)])
    /\ res # NoResult =>
          \E seed \in Seeds :
              /\ GenerateKey(seed).pub = res.finalPub
              /\ ClampedFrom(res.expanded, DigestTable[seed])

\* C38 witness: a worker holds a scalar that differs from the digest of
\* its seed in byte 0 and in byte 31.
C38_Witness ==
    \E w \in Workers :
        /\ expanded[w] # << >>
        /\ LET h == DigestTable[SubSeq(priv[w], 1, 32)]
           IN expanded[w][1] # h[1] /\ expanded[w][32] # h[32]

====
